---- MODULE Spec2Model ----
(***************************************************************************)
(* The green language toolchain: the single-pass bytecode compiler         *)
(* (src/compiler/compiler.rs) and the stack VM that runs its output        *)
(* (src/vm/vm.rs).                                                         *)
(*                                                                         *)
(* Indices (instruction pointer, jump placeholders, local slots, constant  *)
(* ids, stack_start) are 0-based as in the source; a sequence s is read    *)
(* at 0-based index i as s[i + 1].                                         *)
(***************************************************************************)
EXTENDS Integers, Sequences, FiniteSets, TLC

(***************************************************************************)
(* Bounds of the model.                                                    *)
(***************************************************************************)
\* The programs interpreted declare `var a = n` for n in 0 .. MaxNum.
MaxNum == 3
\* Instructions one run may execute (a `while` need not terminate).
MaxSteps == 40
\* Arguments of a call and elements of an array literal the parser reads.
MaxArgs == 3
\* Constructs the compiler on its own (SpecCompiler) may compile.
MaxOps == 5
\* Lines the REPL reads.
MaxLines == 3
MaxConstants == 257
MaxBlocks == 550
StatementsPerBlock == 40

(***************************************************************************)
(* Opcode (src/compiler/opcode.rs): the byte of each instruction.          *)
(***************************************************************************)
OpReturn == 0
OpConstant == 1
OpAdd == 2
OpSubtract == 3
OpMultiply == 4
OpDivide == 5
OpPrint == 6
OpEqual == 7
OpGreater == 8
OpLess == 9
OpNot == 10
OpNegate == 11
OpDefineGlobal == 12
OpGetGlobal == 13
OpSetGlobal == 14
OpJumpIfFalse == 15
OpJump == 16
OpPop == 17
OpGetLocal == 18
OpSetLocal == 19
OpNil == 20
OpCall == 21
OpClosure == 22
OpLoop == 23
OpNewArray == 24
OpIndexSubscript == 25
OpStoreSubscript == 26
OpClass == 27
OpGetProperty == 28
OpSetProperty == 29

\* `as u8`
U8(n) == n % 256

(***************************************************************************)
(* Value (src/compiler/value.rs).  Numbers are modelled by integers.       *)
(***************************************************************************)
Number(n) == [t |-> "Number", n |-> n]
True == [t |-> "True"]
False == [t |-> "False"]
Nil == [t |-> "Nil"]
String(s) == [t |-> "String", s |-> s]
Function(fun) == [t |-> "Function", fun |-> fun]
Closure(fun) == [t |-> "Closure", closure |-> [function |-> fun]]
Array(array) == [t |-> "Array", array |-> array]
\* Value::Class(Gc<Class>): a Class is its name.  Value::Instance(Gc<Instance>):
\* the Gc is a reference, the index of the Instance in the heap of the VM.
Class(name) == [t |-> "Class", class |-> [name |-> name]]
Instance(gc) == [t |-> "Instance", instance |-> gc]
\* Instance::new
Instance_new(class) == [class |-> class, fields |-> [name \in {} |-> Nil]]

\* From<&Value> for bool, with Number 0 counted as false.
bool_from_zero(value) ==
    ~(value.t \in {"False", "Nil"} \/ (value.t = "Number" /\ value.n = 0))

\* impl From<&Value> for bool
bool_from(value) == ~(value.t \in {"False", "Nil"})

\* impl Into<Value> for bool
bool_into(b) == IF b THEN True ELSE False

(***************************************************************************)
(* Chunk, GreenFunction, Local, CompilerInstance.                          *)
(***************************************************************************)
Chunk_new == [code |-> <<>>, constants |-> <<>>]

GreenFunction_new == [name |-> "", chunk |-> Chunk_new, arity |-> 0]

Local_new(name, depth) == [name |-> name, depth |-> depth]

CompilerInstance_new(function_type) ==
    [function |-> GreenFunction_new,
     function_type |-> function_type,
     locals |-> <<Local_new("", 0)>>,
     scope_depth |-> 0]

(***************************************************************************)
(* The compiler's state: `insts` is the chain of CompilerInstances, the    *)
(* script's first and `current` last (each one's `enclosing` is the one    *)
(* before it); `panic` names the panic that ended the compilation, "" when *)
(* there was none.  Every operation leaves a panicked compiler as it is.   *)
(***************************************************************************)
Compiler_new == [insts |-> <<CompilerInstance_new("Script")>>, panic |-> ""]

current(c) == c.insts[Len(c.insts)]

panic(c, msg) == IF c.panic = "" THEN [c EXCEPT !.panic = msg] ELSE c

current_chunk(c) == current(c).function.chunk

code_len(c) == Len(current_chunk(c).code)

\* Chunk::write_byte through Compiler::emit_byte
emit_byte(c, byte) ==
    IF c.panic # "" THEN c
    ELSE [c EXCEPT !.insts[Len(c.insts)].function.chunk.code = Append(@, byte)]

\* Chunk::write through Compiler::emit
emit(c, opcode) == emit_byte(c, opcode)

\* Chunk::add_constant: the chunk after the push ...
add_constant(c, value) ==
    IF c.panic # "" THEN c
    ELSE [c EXCEPT !.insts[Len(c.insts)].function.chunk.constants = Append(@, value)]

\* ... and the u8 it returns, `self.constants.len() as u8 - 1`
add_constant_id(c, value) ==
    U8(U8(Len(current_chunk(c).constants) + 1) - 1)

emit_constant(c, value) ==
    emit_byte(emit(add_constant(c, value), OpConstant), add_constant_id(c, value))

emit_string(c, s) == emit_constant(c, String(s))

emit_return(c) == emit(emit(c, OpNil), OpReturn)

(***************************************************************************)
(* Scopes and variables (src/compiler/compiler.rs).                        *)
(***************************************************************************)
begin_scope(c) ==
    IF c.panic # "" THEN c
    ELSE [c EXCEPT !.insts[Len(c.insts)].scope_depth = @ + 1]

\* The `while` of end_scope: one Pop per trailing Local deeper than scope_depth.
RECURSIVE end_scope_loop(_)
end_scope_loop(c) ==
    LET locals == current(c).locals IN
    IF Len(locals) > 0 /\ locals[Len(locals)].depth > current(c).scope_depth
    THEN end_scope_loop(
             [emit(c, OpPop) EXCEPT
                 !.insts[Len(c.insts)].locals = SubSeq(locals, 1, Len(locals) - 1)])
    ELSE c

end_scope(c) ==
    IF c.panic # "" THEN c
    ELSE end_scope_loop([c EXCEPT !.insts[Len(c.insts)].scope_depth = @ - 1])

add_local(c, name) ==
    IF c.panic # "" THEN c
    ELSE [c EXCEPT !.insts[Len(c.insts)].locals = Append(@, Local_new(name, -1))]

mark_initialized(c) ==
    IF c.panic # "" \/ current(c).scope_depth = 0 THEN c
    ELSE IF Len(current(c).locals) = 0
    THEN panic(c, "index out of bounds")
    ELSE [c EXCEPT !.insts[Len(c.insts)].locals[Len(current(c).locals)].depth =
                       current(c).scope_depth]

\* The `for local in self.current.locals()` of compile_declare_var, from
\* 1-based position i on: TRUE when it reaches the "Already a variable" panic.
RECURSIVE declare_var_scan(_, _, _, _)
declare_var_scan(locals, i, name, scope_depth) ==
    IF i > Len(locals) THEN FALSE
    ELSE IF locals[i].depth # -1 /\ locals[i].depth < scope_depth THEN FALSE
    ELSE IF name = locals[i].name THEN TRUE
    ELSE declare_var_scan(locals, i + 1, name, scope_depth)

compile_declare_var(c, name) ==
    IF c.panic # "" \/ current(c).scope_depth = 0 THEN c
    ELSE IF declare_var_scan(current(c).locals, 1, name, current(c).scope_depth)
    THEN panic(c, "Already a variable called " \o name \o " in this scope.")
    ELSE mark_initialized(add_local(c, name))

compile_define_var(c, name) ==
    IF c.panic # "" THEN c
    ELSE IF current(c).scope_depth > 0 THEN mark_initialized(c)
    ELSE LET c1 == emit(c, OpDefineGlobal) IN
         emit_byte(add_constant(c1, String(name)), add_constant_id(c1, String(name)))

\* The `for (i, local) in ... enumerate()` of resolve_local from 0-based i on:
\* the index returned (-1 when no Local has the name), and whether the
\* "own initializer" panic is reached.
RECURSIVE resolve_local_scan(_, _, _)
resolve_local_scan(locals, i, name) ==
    IF i >= Len(locals) THEN [arg |-> -1, panic |-> FALSE]
    ELSE IF name = locals[i + 1].name
    THEN [arg |-> i, panic |-> locals[i + 1].depth = -1]
    ELSE resolve_local_scan(locals, i + 1, name)

resolve_local(c, name) == resolve_local_scan(current(c).locals, 0, name)

(***************************************************************************)
(* Jumps.                                                                  *)
(***************************************************************************)
hi_byte(n) == (n \div 256) % 256
lo_byte(n) == n % 256

emit_loop(c, loop_start) ==
    LET c1 == emit(c, OpLoop)
        sub == code_len(c1) - loop_start + 2
    IN emit_byte(emit_byte(c1, hi_byte(sub)), lo_byte(sub))

emit_jump(c, instruction) == emit_byte(emit_byte(emit(c, instruction), 255), 255)

\* What emit_jump returns: the position of the placeholder.
emit_jump_offset(c, instruction) == code_len(emit_jump(c, instruction)) - 2

\* patch_jump without the 2 bytes of the operand taken off.
patch_jump_unadjusted(c, offset) ==
    IF c.panic # "" THEN c
    ELSE LET jump == code_len(c) - offset IN
         [c EXCEPT !.insts[Len(c.insts)].function.chunk.code =
                       [[@ EXCEPT ![offset + 1] = hi_byte(jump)]
                           EXCEPT ![offset + 2] = lo_byte(jump)]]

patch_jump(c, offset) ==
    IF c.panic # "" THEN c
    ELSE LET jump == code_len(c) - offset - 2 IN
         [c EXCEPT !.insts[Len(c.insts)].function.chunk.code =
                       [[@ EXCEPT ![offset + 1] = hi_byte(jump)]
                           EXCEPT ![offset + 2] = lo_byte(jump)]]

(***************************************************************************)
(* The AST (src/syntax/expr.rs, ExprKind), as compiler.rs reads it.        *)
(***************************************************************************)
Literal(lit) == [kind |-> "Literal", literal |-> lit]
Binary(lhs, operator, rhs) ==
    [kind |-> "Binary", lhs |-> lhs, rhs |-> rhs, operator |-> operator]
Unary(operator, expr) == [kind |-> "Unary", operator |-> operator, expr |-> expr]
Block(exprs) == [kind |-> "Block", exprs |-> exprs]
Print_(expr) == [kind |-> "Print", expr |-> expr]
Grouping(expr) == [kind |-> "Grouping", expr |-> expr]
VarAssign(name, initializer) ==
    [kind |-> "VarAssign", variable |-> name, initializer |-> initializer]
VarSet(name, initializer) ==
    [kind |-> "VarSet", variable |-> name, initializer |-> initializer]
VarGet(name) == [kind |-> "VarGet", variable |-> name]
If(condition, then_clause) ==
    [kind |-> "If", condition |-> condition, then_clause |-> then_clause]
IfElse(condition, then_clause, else_clause) ==
    [kind |-> "IfElse", condition |-> condition, then_clause |-> then_clause,
     else_clause |-> else_clause]
FunctionExpr(name, parameters, body) ==
    [kind |-> "Function", variable |-> name, parameters |-> parameters,
     body |-> body]
Call(callee, args) == [kind |-> "Call", callee |-> callee, args |-> args]
\* ReturnExpr.expr is an Option: a sequence of no or one expression.
Return(expr) == [kind |-> "Return", expr |-> expr]
While(condition, body) == [kind |-> "While", condition |-> condition, body |-> body]
ArrayExpr(exprs) == [kind |-> "Array", exprs |-> exprs]
ClassExpr(name) == [kind |-> "Class", name |-> name]
GetExpr(expr, property) == [kind |-> "GetProperty", expr |-> expr, property |-> property]
SetExpr(lhs, rhs, property) ==
    [kind |-> "SetProperty", lhs |-> lhs, rhs |-> rhs, property |-> property]
\* SubscriptExpr.expr is an Option: a sequence of no or one expression.
Subscript(callee, index, expr) ==
    [kind |-> "Subscript", callee |-> callee, index |-> index, expr |-> expr]

(***************************************************************************)
(* Compiler::compile_expr and the rule of each ExprKind.                   *)
(***************************************************************************)
RECURSIVE compile_expr(_, _)

\* `for expr in exprs { self.compile_expr(expr) }`
RECURSIVE compile_exprs(_, _)
compile_exprs(c, exprs) ==
    IF Len(exprs) = 0 THEN c
    ELSE compile_exprs(compile_expr(c, Head(exprs)), Tail(exprs))

compile_literal(c, literal) ==
    CASE literal.t = "Number" -> emit_constant(c, literal)
      [] literal.t = "String" -> emit_string(c, literal.s)
      [] literal.t \in {"True", "False"} -> emit_constant(c, literal)
      [] OTHER -> panic(c, "not yet implemented")

binary_opcodes(operator) ==
    CASE operator = "Add" -> <<OpAdd>>
      [] operator = "Subtract" -> <<OpSubtract>>
      [] operator = "Multiply" -> <<OpMultiply>>
      [] operator = "Divide" -> <<OpDivide>>
      [] operator = "Equal" -> <<OpEqual>>
      [] operator = "BangEqual" -> <<OpEqual, OpNot>>
      [] operator = "GreaterThan" -> <<OpGreater>>
      [] operator = "GreaterThanEqual" -> <<OpLess, OpNot>>
      [] operator = "LessThan" -> <<OpLess>>
      [] operator = "LessThanEqual" -> <<OpGreater, OpNot>>

RECURSIVE emit_all(_, _)
emit_all(c, opcodes) ==
    IF Len(opcodes) = 0 THEN c ELSE emit_all(emit(c, Head(opcodes)), Tail(opcodes))

compile_binary(c, binary) ==
    emit_all(compile_expr(compile_expr(c, binary.lhs), binary.rhs),
             binary_opcodes(binary.operator))

compile_unary(c, unary) ==
    emit(compile_expr(c, unary.expr),
         IF unary.operator = "Negate" THEN OpNegate ELSE OpNot)

compile_block(c, block) == end_scope(compile_exprs(begin_scope(c), block.exprs))

compile_print(c, print) == emit(compile_expr(c, print.expr), OpPrint)

compile_grouping(c, grouping) == compile_expr(c, grouping.expr)

compile_var_expr(c, var) ==
    LET c1 == compile_expr(c, var.initializer) IN
    IF c1.panic # "" THEN c1
    ELSE IF current(c1).scope_depth > 0
    THEN compile_declare_var(c1, var.variable)
    ELSE compile_define_var(c1, var.variable)

\* The part of compile_set_var / compile_get_var after the initializer:
\* SetLocal / GetLocal of the resolved slot, else SetGlobal / GetGlobal.
emit_var(c, var_name, local_op, global_op) ==
    LET r == resolve_local(c, var_name) IN
    IF c.panic # "" THEN c
    ELSE IF r.panic THEN panic(c, "Can't read local variable in it's own initializer.")
    ELSE IF r.arg # -1 THEN emit_byte(emit(c, local_op), U8(r.arg))
    ELSE LET c1 == emit(c, global_op) IN
         emit_byte(add_constant(c1, String(var_name)),
                   add_constant_id(c1, String(var_name)))

compile_set_var(c, var) ==
    emit_var(compile_expr(c, var.initializer), var.variable, OpSetLocal, OpSetGlobal)

compile_get_var(c, var) == emit_var(c, var.variable, OpGetLocal, OpGetGlobal)

compile_if(c, if_expr) ==
    LET c1 == compile_expr(c, if_expr.condition)
        then_jump == emit_jump_offset(c1, OpJumpIfFalse)
        c2 == emit(emit_jump(c1, OpJumpIfFalse), OpPop)
        c3 == compile_exprs(c2, if_expr.then_clause)
        else_jump == emit_jump_offset(c3, OpJump)
        c4 == emit(patch_jump(emit_jump(c3, OpJump), then_jump), OpPop)
    IN patch_jump(c4, else_jump)

compile_if_else(c, if_else_expr) ==
    LET c1 == compile_expr(c, if_else_expr.condition)
        then_jump == emit_jump_offset(c1, OpJumpIfFalse)
        c2 == emit(emit_jump(c1, OpJumpIfFalse), OpPop)
        c3 == compile_exprs(c2, if_else_expr.then_clause)
        else_jump == emit_jump_offset(c3, OpJump)
        c4 == emit(patch_jump(emit_jump(c3, OpJump), then_jump), OpPop)
        c5 == compile_exprs(c4, if_else_expr.else_clause)
    IN patch_jump(c5, else_jump)

\* compile_function up to the body: the new CompilerInstance, its name, the
\* scope of the parameters and the parameters.
RECURSIVE compile_parameters(_, _)
compile_parameters(c, parameters) ==
    IF Len(parameters) = 0 \/ c.panic # "" THEN c
    ELSE compile_parameters(
             compile_declare_var(
                 [c EXCEPT !.insts[Len(c.insts)].function.arity = U8(@ + 1)],
                 Head(parameters)),
             Tail(parameters))

function_begin(c, name, parameters) ==
    IF c.panic # "" THEN c
    ELSE LET ci == [CompilerInstance_new("Function") EXCEPT !.function.name = name]
         IN compile_parameters(
                begin_scope([c EXCEPT !.insts = Append(@, ci)]), parameters)

\* end_compiler without its emit_return.
end_compiler_bare(c) == current(c).function

\* end_compiler: the function it returns ...
end_compiler_function(c) == current(emit_return(c)).function

\* ... and the compiler it leaves: `current` is the enclosing instance, when
\* there is one.
end_compiler(c) ==
    IF c.panic # "" THEN c
    ELSE IF Len(c.insts) > 1
    THEN [c EXCEPT !.insts = SubSeq(@, 1, Len(@) - 1)]
    ELSE emit_return(c)

\* compile_function after the body.
function_end(c, name) ==
    IF c.panic # "" THEN c
    ELSE LET function == end_compiler_function(c)
             c1 == emit(end_compiler(c), OpClosure)
             c2 == emit_byte(add_constant(c1, Function(function)),
                             add_constant_id(c1, Function(function)))
         IN compile_define_var(c2, name)

compile_function(c, fun_expr) ==
    function_end(
        compile_block(function_begin(c, fun_expr.variable, fun_expr.parameters),
                      Block(fun_expr.body)),
        fun_expr.variable)

compile_call(c, call) ==
    IF Len(call.args) > 8 THEN panic(c, "explicit panic")
    ELSE emit_byte(
             emit(compile_exprs(compile_expr(c, call.callee), call.args), OpCall),
             U8(Len(call.args)))

\* compile_return without the test of the function type.
compile_return_anywhere(c, return_expr) ==
    IF c.panic # "" THEN c
    ELSE IF Len(return_expr.expr) > 0
    THEN emit(compile_expr(c, return_expr.expr[1]), OpReturn)
    ELSE emit(emit(c, OpNil), OpReturn)

compile_return(c, return_expr) ==
    IF c.panic # "" THEN c
    ELSE IF current(c).function_type = "Script"
    THEN panic(c, "Can't return from top level code.")
    ELSE IF Len(return_expr.expr) > 0
    THEN emit(compile_expr(c, return_expr.expr[1]), OpReturn)
    ELSE emit(emit(c, OpNil), OpReturn)

compile_while(c, while_expr) ==
    LET loop_start == code_len(c)
        c1 == compile_expr(c, while_expr.condition)
        exit_jump == emit_jump_offset(c1, OpJumpIfFalse)
        c2 == emit(emit_jump(c1, OpJumpIfFalse), OpPop)
        c3 == compile_expr(c2, while_expr.body)
    IN emit(patch_jump(emit_loop(c3, loop_start), exit_jump), OpPop)

\* impl Compile for ArrayExpr
compile_array(c, array) ==
    emit_byte(emit(compile_exprs(c, array.exprs), OpNewArray), U8(Len(array.exprs)))

\* impl Compile for SubscriptExpr
compile_subscript(c, subscript) ==
    LET c1 == compile_expr(compile_expr(c, subscript.callee), subscript.index)
    IN IF Len(subscript.expr) > 0
       THEN emit(compile_expr(c1, subscript.expr[1]), OpStoreSubscript)
       ELSE emit(c1, OpIndexSubscript)

\* impl Compile for ClassExpr
compile_class(c, class) ==
    LET name_constant == add_constant_id(c, String(class.name))
        c1 == compile_declare_var(add_constant(c, String(class.name)), class.name)
    IN compile_define_var(emit_byte(emit(c1, OpClass), name_constant), class.name)

\* impl Compile for GetExpr
compile_get_property(c, get) ==
    LET c1 == emit(compile_expr(c, get.expr), OpGetProperty)
    IN emit_byte(add_constant(c1, String(get.property)),
                 add_constant_id(c1, String(get.property)))

\* impl Compile for SetExpr
compile_set_property(c, set) ==
    LET c1 == emit(compile_expr(compile_expr(c, set.lhs), set.rhs), OpSetProperty)
    IN emit_byte(add_constant(c1, String(set.property)),
                 add_constant_id(c1, String(set.property)))

compile_expr(c, expr) ==
    IF c.panic # "" THEN c
    ELSE CASE expr.kind = "Literal" -> compile_literal(c, expr.literal)
           [] expr.kind = "Binary" -> compile_binary(c, expr)
           [] expr.kind = "Unary" -> compile_unary(c, expr)
           [] expr.kind = "Block" -> compile_block(c, expr)
           [] expr.kind = "Print" -> compile_print(c, expr)
           [] expr.kind = "Grouping" -> compile_grouping(c, expr)
           [] expr.kind = "VarAssign" -> compile_var_expr(c, expr)
           [] expr.kind = "VarSet" -> compile_set_var(c, expr)
           [] expr.kind = "VarGet" -> compile_get_var(c, expr)
           [] expr.kind = "If" -> compile_if(c, expr)
           [] expr.kind = "IfElse" -> compile_if_else(c, expr)
           [] expr.kind = "Function" -> compile_function(c, expr)
           [] expr.kind = "Call" -> compile_call(c, expr)
           [] expr.kind = "Return" -> compile_return(c, expr)
           [] expr.kind = "While" -> compile_while(c, expr)
           [] expr.kind = "Array" -> compile_array(c, expr)
           [] expr.kind = "Subscript" -> compile_subscript(c, expr)
           [] expr.kind = "Class" -> compile_class(c, expr)
           [] expr.kind = "GetProperty" -> compile_get_property(c, expr)
           [] expr.kind = "SetProperty" -> compile_set_property(c, expr)

\* Compiler::compile_module: the compiler after the module's expressions ...
compile_module_compiler(module) == compile_exprs(Compiler_new, module)

\* ... and the script function end_compiler makes of it.
compile_module(module) == end_compiler_function(compile_module_compiler(module))

(***************************************************************************)
(* The VM (src/vm/mod.rs, src/vm/vm.rs).                                   *)
(*                                                                         *)
(* vm      the struct VM: stack, frames (CallFrame: closure, ip,           *)
(*         stack_start), globals (a function from the bound names)         *)
(* output  what Print wrote to the standard output                         *)
(* status  "idle" (no interpret is running), "running" (inside run),       *)
(*         "error" (run returned Err(error)), "panic" (the process         *)
(*         panicked with message `error`)                                  *)
(* lines   the interpret calls made on this VM                             *)
(* steps   the instructions the running interpret has executed             *)
(* module  the ModuleAst of the last interpret call                        *)
(*                                                                         *)
(* comp, ctl, ops belong to the compiler run on its own further below.     *)
(*                                                                         *)
(* parser  the struct GreenParser: the tokens not yet consumed             *)
(* parsed  GreenParser::parse: the exprs parsed so far and, once it has    *)
(*         returned, its Result                                            *)
(***************************************************************************)
VARIABLES vm, output, status, error, lines, steps, module, comp, ctl, ops,
          parser, parsed

vars ==
    <<vm, output, status, error, lines, steps, module, comp, ctl, ops, parser, parsed>>

parser_vars == <<parser, parsed>>

vm_vars == <<vm, output, status, error, lines, steps, module, parser_vars>>

compiler_vars == <<comp, ctl, ops, parser_vars>>

NoGlobals == [name \in {} |-> Nil]

VM_new == [stack |-> <<>>, frames |-> <<>>, globals |-> NoGlobals, heap |-> <<>>]

GreenClosure_new(function) == [function |-> function]

CallFrame_new(closure, stack_start) ==
    [closure |-> closure, ip |-> 0, stack_start |-> stack_start]

\* What a handler returns: the VM it leaves, and whether it returned Ok(()),
\* returned Err(error) or panicked with message `error`.
Ok(v) == [vm |-> v, result |-> "Ok", error |-> ""]
Err(v, e) == [vm |-> v, result |-> "Err", error |-> e]
Panic(v, msg) == [vm |-> v, result |-> "panic", error |-> msg]

frame(v) == v.frames[Len(v.frames)]

vm_current_chunk(v) == frame(v).closure.function.chunk

push(v, value) == [v EXCEPT !.stack = Append(@, value)]

stack_last(v) == v.stack[Len(v.stack)]

stack_pop(v) == [v EXCEPT !.stack = SubSeq(@, 1, Len(@) - 1)]

\* read_byte: the byte at ip ...
read_byte(v) == vm_current_chunk(v).code[frame(v).ip + 1]

\* ... and the VM with ip moved past it.
skip_byte(v) == [v EXCEPT !.frames[Len(v.frames)].ip = @ + 1]

\* read_short: the big-endian u16 at ip ...
read_short(v) ==
    LET ip == frame(v).ip + 2
        lo == vm_current_chunk(v).code[(ip - 2) + 1]
        hi == vm_current_chunk(v).code[(ip - 1) + 1]
    IN lo * 256 + hi

\* ... and the VM with ip moved past it.
skip_short(v) == [v EXCEPT !.frames[Len(v.frames)].ip = @ + 2]

\* read_constant, without the move of ip
read_constant(v) == vm_current_chunk(v).constants[read_byte(v) + 1]

\* impl Add, Sub, Mul for Value; PartialEq, PartialOrd; Neg.  NotANumber
\* stands for their panic.
NotANumber == [t |-> "panic!"]

\* a + b where a non-number operand counts as 0 or 1.
value_add_coercing(a, b) ==
    LET n(x) == IF x.t = "Number" THEN x.n ELSE IF bool_from(x) THEN 1 ELSE 0
    IN Number(n(a) + n(b))

value_add(a, b) ==
    IF a.t = "Number" /\ b.t = "Number" THEN Number(a.n + b.n) ELSE NotANumber

value_sub(a, b) ==
    IF a.t = "Number" /\ b.t = "Number" THEN Number(a.n - b.n) ELSE NotANumber

value_mul(a, b) ==
    IF a.t = "Number" /\ b.t = "Number" THEN Number(a.n * b.n) ELSE NotANumber

value_eq(a, b) ==
    IF a.t = "Number" /\ b.t = "Number" THEN bool_into(a.n = b.n) ELSE NotANumber

value_gt(a, b) ==
    IF a.t = "Number" /\ b.t = "Number" THEN bool_into(a.n > b.n) ELSE NotANumber

value_lt(a, b) ==
    IF a.t = "Number" /\ b.t = "Number" THEN bool_into(a.n < b.n) ELSE NotANumber

\* impl Div: an f64 quotient that is no integer is kept as the pair of its
\* operands.
value_div(a, b) ==
    IF a.t = "Number" /\ b.t = "Number"
    THEN IF b.n # 0 /\ a.n % b.n = 0 THEN Number(a.n \div b.n)
         ELSE Number(<<a.n, b.n>>)
    ELSE NotANumber

value_neg(a) == IF a.t = "Number" THEN Number(0 - a.n) ELSE NotANumber

\* The operands of add, subtract, multiply, equal, greater, less: `let b =
\* self.pop()?; let a = self.pop()?` (Nil where the stack has no value).
operand_b(v) == IF Len(v.stack) > 0 THEN stack_last(v) ELSE Nil

operand_a(v) == IF Len(v.stack) > 1 THEN stack_last(stack_pop(v)) ELSE Nil

\* add, subtract, multiply, equal, greater, less, for the `value` that
\* a <op> b is: `self.push(a <op> b)`
binary_handler(v, value) ==
    IF Len(v.stack) = 0 THEN Err(v, "StackEmpty")
    ELSE IF Len(v.stack) = 1 THEN Err(stack_pop(v), "StackEmpty")
    ELSE IF value.t = "panic!"
    THEN Panic(stack_pop(stack_pop(v)), "Operand must be a number.")
    ELSE Ok(push(stack_pop(stack_pop(v)), value))

vm_not(v) ==
    IF Len(v.stack) = 0 THEN Err(v, "StackEmpty")
    ELSE Ok(push(stack_pop(v), bool_into(~bool_from(stack_last(v)))))

vm_negate(v) ==
    IF Len(v.stack) = 0 THEN Err(v, "StackEmpty")
    ELSE IF value_neg(stack_last(v)).t = "panic!"
    THEN Panic(stack_pop(v), "not yet implemented")
    ELSE Ok(push(stack_pop(v), value_neg(stack_last(v))))

vm_constant(v) == Ok(push(skip_byte(v), read_constant(v)))

vm_nil(v) == Ok(push(v, Nil))

vm_pop(v) == IF Len(v.stack) = 0 THEN Err(v, "StackEmpty") ELSE Ok(stack_pop(v))

\* Vec::truncate
truncate(stack, len) == IF len < Len(stack) THEN SubSeq(stack, 1, len) ELSE stack

\* ret that leaves the frame on the frame stack.
ret_keeping_frame(v) ==
    IF Len(v.frames) = 0 THEN Err(v, "ReturnFromTopLevel")
    ELSE IF Len(v.stack) = 0 THEN Err(v, "StackEmpty")
    ELSE Ok([v EXCEPT !.stack =
                Append(truncate(stack_pop(v).stack, frame(v).stack_start),
                       stack_last(v))])

vm_ret(v) ==
    IF Len(v.frames) = 0 THEN Err(v, "ReturnFromTopLevel")
    ELSE LET fr == frame(v)
             v1 == [v EXCEPT !.frames = SubSeq(@, 1, Len(@) - 1)]
         IN IF Len(v1.stack) = 0 THEN Err(v1, "StackEmpty")
            ELSE Ok([v1 EXCEPT !.stack =
                        Append(truncate(stack_pop(v1).stack, fr.stack_start),
                               stack_last(v1))])

\* HashMap::insert
insert(globals, name, value) ==
    [n \in DOMAIN globals \cup {name} |-> IF n = name THEN value ELSE globals[n]]

vm_define_global(v) ==
    IF Len(v.stack) = 0 THEN Err(v, "StackEmpty")
    ELSE IF read_constant(v).t # "String" THEN Panic(skip_byte(stack_pop(v)), "TODO")
    ELSE Ok([skip_byte(stack_pop(v)) EXCEPT
                !.globals = insert(@, read_constant(v).s, stack_last(v))])

vm_get_global(v) ==
    LET name == read_constant(v) IN
    IF name.t # "String" THEN Panic(skip_byte(v), "TODO")
    ELSE IF name.s \in DOMAIN v.globals
    THEN Ok(push(skip_byte(v), v.globals[name.s]))
    ELSE Err(skip_byte(v), "UndefinedGlobal")

\* VM::set_global without the contains_key test.
set_global_declaring(v) ==
    LET name == read_constant(v) IN
    IF name.t # "String" THEN Panic(skip_byte(v), "TODO")
    ELSE IF Len(v.stack) = 0 THEN Err(skip_byte(v), "StackEmpty")
    ELSE Ok([skip_byte(v) EXCEPT !.globals = insert(@, name.s, stack_last(v))])

vm_set_global(v) ==
    LET name == read_constant(v) IN
    IF name.t # "String" THEN Panic(skip_byte(v), "TODO")
    ELSE IF name.s \in DOMAIN v.globals
    THEN IF Len(v.stack) = 0 THEN Err(skip_byte(v), "StackEmpty")
         ELSE Ok([skip_byte(v) EXCEPT
                     !.globals = insert(@, name.s, stack_last(v))])
    ELSE Err(skip_byte(v), "UndefinedGlobal")

jump_if_false_popping(v) ==
    LET offset == read_short(v)
        popped == [skip_short(v) EXCEPT !.stack = SubSeq(@, 1, Len(@) - 1)] IN
    IF Len(v.stack) = 0 THEN Err(skip_short(v), "StackEmpty")
    ELSE IF ~bool_from(stack_last(v))
    THEN Ok([popped EXCEPT !.frames[Len(v.frames)].ip = @ + offset])
    ELSE Ok(popped)

vm_jump_if_false(v) ==
    LET offset == read_short(v) IN
    IF Len(v.stack) = 0 THEN Err(skip_short(v), "StackEmpty")
    ELSE IF ~bool_from(stack_last(v))
    THEN Ok([skip_short(v) EXCEPT !.frames[Len(v.frames)].ip = @ + offset])
    ELSE Ok(skip_short(v))

vm_jump(v) ==
    Ok([skip_short(v) EXCEPT !.frames[Len(v.frames)].ip = @ + read_short(v)])

vm_loop_(v) ==
    IF read_short(v) > frame(v).ip + 2
    THEN Panic(skip_short(v), "attempt to subtract with overflow")
    ELSE Ok([skip_short(v) EXCEPT !.frames[Len(v.frames)].ip = @ - read_short(v)])

vm_get_local(v) ==
    LET index == frame(v).stack_start + read_byte(v) IN
    IF index < Len(v.stack)
    THEN Ok(push(skip_byte(v), v.stack[index + 1]))
    ELSE Err(skip_byte(v), "BadStackIndex")

\* set_local with the slot taken as an index of the whole stack.
set_local_absolute(v) ==
    LET index == read_byte(v) IN
    IF Len(v.stack) = 0 THEN Err(v, "StackEmpty")
    ELSE IF index >= Len(v.stack)
    THEN Panic(skip_byte(v), "index out of bounds")
    ELSE Ok([skip_byte(v) EXCEPT !.stack[index + 1] = stack_last(v)])

vm_set_local(v) ==
    LET index == frame(v).stack_start + read_byte(v) IN
    IF Len(v.stack) = 0 THEN Err(v, "StackEmpty")
    ELSE IF index >= Len(v.stack)
    THEN Panic(skip_byte(v), "index out of bounds")
    ELSE Ok([skip_byte(v) EXCEPT !.stack[index + 1] = stack_last(v)])

vm_closure(v) ==
    IF read_constant(v).t = "Function"
    THEN Ok(push(skip_byte(v), Closure(read_constant(v).fun)))
    ELSE Panic(skip_byte(v), "not yet implemented")

\* VM::call with the frame starting above the callee, at the first argument.
call_above_callee(v, closure, arity) ==
    IF arity # closure.function.arity
    THEN Panic(v, "Expected a different number of arguments.")
    ELSE Ok([v EXCEPT !.frames =
                 Append(@, CallFrame_new(closure, Len(v.stack) - arity))])

\* VM::call without the check of the arity.
call_unchecked(v, closure, arity) ==
    Ok([v EXCEPT !.frames =
            Append(@, CallFrame_new(closure, Len(v.stack) - (arity + 1)))])

vm_call(v, closure, arity) ==
    IF arity # closure.function.arity
    THEN Panic(v, "Expected a different number of arguments.")
    ELSE Ok([v EXCEPT !.frames =
                 Append(@, CallFrame_new(closure, Len(v.stack) - (arity + 1)))])

\* VM::alloc of an Instance: Gc::new(obj), a new place in the heap; the Gc
\* returned is Len(v.heap), the index of that place.
alloc(v, obj) == [v EXCEPT !.heap = Append(@, obj)]

call_value(v, arity) ==
    IF Len(v.stack) < arity + 1
    THEN Panic(v, "attempt to subtract with overflow")
    ELSE LET callee == v.stack[(Len(v.stack) - (arity + 1)) + 1] IN
         IF callee.t = "Closure" THEN vm_call(v, callee.closure, arity)
         ELSE IF callee.t = "Class"
         THEN Ok([alloc(v, Instance_new(callee.class)) EXCEPT
                     !.stack[Len(v.stack) - arity] = Instance(Len(v.heap))])
         ELSE Panic(v, "Can only call functions")

vm_call_instruction(v) == call_value(skip_byte(v), read_byte(v))

\* class
vm_class(v) ==
    IF read_constant(v).t # "String" THEN Panic(skip_byte(v), "TODO")
    ELSE Ok(push(skip_byte(v), Class(read_constant(v).s)))

vm_get_property(v) ==
    IF Len(v.stack) = 0 THEN Err(v, "StackEmpty")
    ELSE IF stack_last(v).t # "Instance"
    THEN Panic(v, "Only instances have properties.")
    ELSE LET i == v.heap[stack_last(v).instance + 1]
             name == read_constant(v)
             v1 == skip_byte(stack_pop(v))
         IN IF name.t # "String" THEN Panic(v1, "TODO")
            ELSE IF name.s \in DOMAIN i.fields THEN Ok(push(v1, i.fields[name.s]))
            ELSE Err(v1, "UndefinedProperty")

\* set_property on a copy of the Instance: the fields of the Instance the
\* references share are left as they were.
set_property_of_copy(v) ==
    IF Len(v.stack) < 2 THEN Err(v, "StackEmpty")
    ELSE IF stack_last(stack_pop(v)).t # "Instance"
    THEN Err(stack_pop(stack_pop(v)), "ArgumentTypes")
    ELSE Ok(push(skip_byte(stack_pop(stack_pop(v))), stack_last(v)))

vm_set_property(v) ==
    IF Len(v.stack) = 0 THEN Err(v, "StackEmpty")
    ELSE LET value == stack_last(v)
             v1 == stack_pop(v)
         IN IF Len(v1.stack) = 0 THEN Err(v1, "StackEmpty")
            ELSE LET instance == stack_last(v1)
                     v2 == stack_pop(v1)
                     property == read_constant(v)
                 IN IF instance.t # "Instance" THEN Err(v2, "ArgumentTypes")
                    ELSE IF property.t # "String" THEN Panic(skip_byte(v2), "TODO")
                    ELSE Ok(push([skip_byte(v2) EXCEPT
                                     !.heap[instance.instance + 1].fields =
                                         insert(@, property.s, value)],
                                 value))

\* new_array: the item_count values on top of the stack, in the order they
\* were pushed, become one Array.
vm_new_array(v) ==
    LET item_count == read_byte(v)
        v1 == skip_byte(v)
        len == Len(v1.stack)
    IN IF len < item_count
       THEN Err([v1 EXCEPT !.stack = <<>>], "StackEmpty")
       ELSE Ok(push([v1 EXCEPT !.stack = SubSeq(@, 1, len - item_count)],
                    Array(SubSeq(v1.stack, len - item_count + 1, len))))

\* `index as usize`
as_usize(n) == IF n < 0 THEN 0 ELSE n

vm_index_subscript(v) ==
    IF Len(v.stack) = 0 THEN Err(v, "StackEmpty")
    ELSE LET index == stack_last(v)
             v1 == stack_pop(v)
         IN IF index.t # "Number" THEN Panic(v1, "TODO")
            ELSE IF Len(v1.stack) = 0 THEN Err(v1, "StackEmpty")
            ELSE LET array == stack_last(v1)
                     v2 == stack_pop(v1)
                 IN IF array.t # "Array" THEN Panic(v2, "TODO")
                    ELSE IF as_usize(index.n) >= Len(array.array)
                    THEN Panic(v2, "index out of bounds")
                    ELSE Ok(push(v2, array.array[as_usize(index.n) + 1]))

vm_store_subscript(v) ==
    IF Len(v.stack) = 0 THEN Err(v, "StackEmpty")
    ELSE LET item == stack_last(v)
             v1 == stack_pop(v)
         IN IF Len(v1.stack) = 0 THEN Err(v1, "StackEmpty")
            ELSE LET index == stack_last(v1)
                     v2 == stack_pop(v1)
                 IN IF index.t # "Number" THEN Panic(v2, "TODO")
                    ELSE IF Len(v2.stack) = 0 THEN Err(v2, "StackEmpty")
                    ELSE LET array == stack_last(v2)
                             v3 == stack_pop(v2)
                         IN IF array.t # "Array" THEN Panic(v3, "TODO")
                            ELSE IF as_usize(index.n) >= Len(array.array)
                            THEN Panic(v3, "index out of bounds")
                            ELSE Ok(push(v3, Array([array.array EXCEPT
                                           ![as_usize(index.n) + 1] = item])))

(***************************************************************************)
(* The parser (src/syntax/parser.rs, src/syntax/rule.rs).  GreenParser     *)
(* holds the token vector reversed: the next token is the last element.    *)
(* An operation that takes `&mut self` takes the tokens and returns the    *)
(* tokens left together with its Result.                                   *)
(***************************************************************************)
Token(token_type, source) == [token_type |-> token_type, source |-> source]

Parsed(tokens, value) ==
    [result |-> "Ok", tokens |-> tokens, value |-> value, error |-> ""]

ParserError(tokens, e) ==
    [result |-> "Err", tokens |-> tokens, value |-> <<>>, error |-> e]

\* The decimal digits a Number token is written with.
Digits == <<"0", "1", "2", "3", "4", "5", "6", "7", "8", "9">>

\* `token.source.parse::<f64>()`
parse_f64(source) == (CHOOSE d \in DOMAIN Digits : Digits[d] = source) - 1

Precedence ==
    [None |-> 0, Assignment |-> 1, Or |-> 2, And |-> 3, Equality |-> 4,
     Comparison |-> 5, Term |-> 6, Factor |-> 7, Unary |-> 8, Call |-> 9,
     Subscript |-> 10]

\* get_precedence: the precedence of get_infix_rule's parser, or None.
get_precedence(token) ==
    CASE token.token_type \in {"Plus", "Minus"} -> Precedence.Term
      [] token.token_type \in {"Star", "Slash"} -> Precedence.Factor
      [] token.token_type \in {"EqualEqual", "BangEqual"} -> Precedence.Equality
      [] token.token_type \in {"GreaterThan", "GreaterThanEqual", "LessThan",
                               "LessThanEqual"} -> Precedence.Comparison
      [] token.token_type = "LeftParen" -> Precedence.Call
      [] token.token_type = "LeftBracket" -> Precedence.Subscript
      [] token.token_type = "Dot" -> Precedence.Call
      [] OTHER -> Precedence.None

\* BinaryOperator::from_token
BinaryOperator_from_token(token_type) ==
    CASE token_type = "Plus" -> "Add"
      [] token_type = "Minus" -> "Subtract"
      [] token_type = "Star" -> "Multiply"
      [] token_type = "Slash" -> "Divide"
      [] token_type = "EqualEqual" -> "Equal"
      [] token_type = "BangEqual" -> "BangEqual"
      [] token_type = "GreaterThan" -> "GreaterThan"
      [] token_type = "GreaterThanEqual" -> "GreaterThanEqual"
      [] token_type = "LessThan" -> "LessThan"
      [] token_type = "LessThanEqual" -> "LessThanEqual"

peek_type(tokens) ==
    IF tokens = <<>> THEN "EOF" ELSE tokens[Len(tokens)].token_type

check(tokens, token_type) == peek_type(tokens) = token_type

consume(tokens) ==
    IF tokens = <<>> THEN ParserError(tokens, "UnexpectedEOF")
    ELSE Parsed(SubSeq(tokens, 1, Len(tokens) - 1), tokens[Len(tokens)])

match_(tokens, token_type) ==
    IF ~check(tokens, token_type) THEN Parsed(tokens, FALSE)
    ELSE LET token == consume(tokens)
         IN IF token.result = "Err" THEN token ELSE Parsed(token.tokens, TRUE)

expect(tokens, token_type) ==
    IF check(tokens, token_type) THEN consume(tokens)
    ELSE ParserError(tokens, "Expect")

RECURSIVE parse_precedence(_, _)
RECURSIVE parse_infix(_, _, _)

parse_expression(tokens) == parse_precedence(tokens, Precedence.Assignment)

LiteralParser(tokens, token) ==
    Parsed(tokens, Literal(CASE token.token_type = "Number" -> Number(parse_f64(token.source))
                             [] token.token_type = "String" -> String(token.source)
                             [] token.token_type = "True" -> True
                             [] token.token_type = "False" -> False))

\* GroupingParser::parse, after `let expr = parser.parse_expression()?`
GroupingParser_expect(expr) ==
    IF expr.result = "Err" THEN expr
    ELSE LET paren == expect(expr.tokens, "RightParen")
         IN IF paren.result = "Err" THEN paren
            ELSE Parsed(paren.tokens, Grouping(expr.value))

GroupingParser(tokens) == GroupingParser_expect(parse_expression(tokens))

\* IdentifierParser::parse, after `let initializer = parser.parse_expression()?`
IdentifierParser_set(token, initializer) ==
    IF initializer.result = "Err" THEN initializer
    ELSE Parsed(initializer.tokens, VarSet(token.source, initializer.value))

IdentifierParser(tokens, token) ==
    LET equal == match_(tokens, "Equal") IN
    IF equal.result = "Err" THEN equal
    ELSE IF equal.value THEN IdentifierParser_set(token, parse_expression(equal.tokens))
    ELSE Parsed(equal.tokens, VarGet(token.source))

\* UnaryParser::parse, after `let expr = parser.parse_expression()?`
UnaryParser_op(token, expr) ==
    IF expr.result = "Err" THEN expr
    ELSE Parsed(expr.tokens,
                Unary(IF token.token_type = "Minus" THEN "Negate" ELSE "Not", expr.value))

UnaryParser(tokens, token) == UnaryParser_op(token, parse_expression(tokens))

\* InfixOperatorParser::parse, after `let right = parser.parse_precedence(..)?`
InfixOperatorParser_binary(left, token, right) ==
    IF right.result = "Err" THEN right
    ELSE Parsed(right.tokens,
                Binary(left, BinaryOperator_from_token(token.token_type), right.value))

InfixOperatorParser(tokens, left, token) ==
    InfixOperatorParser_binary(left, token,
                               parse_precedence(tokens, get_precedence(token)))

\* CallParser::parse: `args.push(parser.parse_expression()?)`, then
\* `while parser.match_(TokenType::Comma)? { parser.consume()?; args.push(..) }`
RECURSIVE CallParser_while(_, _)
CallParser_push(args, arg) ==
    IF arg.result = "Err" THEN arg
    ELSE CallParser_while(arg.tokens, Append(args, arg.value))

CallParser_while(tokens, args) ==
    LET comma == match_(tokens, "Comma") IN
    IF comma.result = "Err" THEN comma
    ELSE IF ~comma.value THEN Parsed(comma.tokens, args)
    ELSE LET consumed == consume(comma.tokens) IN
         IF consumed.result = "Err" THEN consumed
         ELSE CallParser_push(args, parse_expression(consumed.tokens))

\* CallParser::parse, `parser.expect(TokenType::RightParen)?` and the result
CallParser_expect(left, args) ==
    IF args.result = "Err" THEN args
    ELSE LET paren == expect(args.tokens, "RightParen")
         IN IF paren.result = "Err" THEN paren
            ELSE Parsed(paren.tokens, Call(left, args.value))

CallParser(tokens, left) ==
    CallParser_expect(left, IF check(tokens, "RightParen") THEN Parsed(tokens, <<>>)
                            ELSE CallParser_push(<<>>, parse_expression(tokens)))

\* SubscriptParser::parse, after `Some(parser.parse_expression()?)`
SubscriptParser_store(left, index, expr) ==
    IF expr.result = "Err" THEN expr
    ELSE Parsed(expr.tokens, Subscript(left, index.value, <<expr.value>>))

\* SubscriptParser::parse, after `let index = parser.parse_precedence(Or)?`
SubscriptParser_index(left, index) ==
    IF index.result = "Err" THEN index
    ELSE LET bracket == expect(index.tokens, "RightBracket") IN
         IF bracket.result = "Err" THEN bracket
         ELSE LET equal == match_(bracket.tokens, "Equal") IN
              IF equal.result = "Err" THEN equal
              ELSE IF ~equal.value
              THEN Parsed(equal.tokens, Subscript(left, index.value, <<>>))
              ELSE LET consumed == consume(equal.tokens) IN
                   IF consumed.result = "Err" THEN consumed
                   ELSE SubscriptParser_store(left, index,
                                              parse_expression(consumed.tokens))

SubscriptParser(tokens, left) ==
    SubscriptParser_index(left, parse_precedence(tokens, Precedence.Or))

\* DotParser::parse, after `let value = parser.parse_expression()?`
DotParser_set(left, property, value) ==
    IF value.result = "Err" THEN value
    ELSE Parsed(value.tokens, SetExpr(left, value.value, property.value.source))

DotParser(tokens, left) ==
    LET property == expect(tokens, "Identifier") IN
    IF property.result = "Err" THEN property
    ELSE LET equal == match_(property.tokens, "Equal") IN
         IF equal.result = "Err" THEN equal
         ELSE IF ~equal.value
         THEN Parsed(equal.tokens, GetExpr(left, property.value.source))
         ELSE DotParser_set(left, property, parse_expression(equal.tokens))

\* ArrayParser::parse, the `loop { ... }`: after `exprs.push(expr)` ...
RECURSIVE ArrayParser_loop(_, _)
ArrayParser_push(exprs, expr) ==
    IF expr.result = "Err" THEN expr
    ELSE LET comma == match_(expr.tokens, "Comma") IN
         IF comma.result = "Err" THEN comma
         ELSE IF ~comma.value
         THEN ArrayParser_loop(comma.tokens, Append(exprs, expr.value))
         ELSE LET consumed == consume(comma.tokens)
              IN IF consumed.result = "Err" THEN consumed
                 ELSE ArrayParser_loop(consumed.tokens, Append(exprs, expr.value))

\* ... and from its start
ArrayParser_loop(tokens, exprs) ==
    LET bracket == match_(tokens, "RightBracket") IN
    IF bracket.result = "Err" THEN bracket
    ELSE IF bracket.value THEN Parsed(bracket.tokens, exprs)
    ELSE ArrayParser_push(exprs, parse_precedence(bracket.tokens, Precedence.Or))

\* ArrayParser::parse, `parser.expect(TokenType::RightBracket)?` and the result
ArrayParser_expect(exprs) ==
    IF exprs.result = "Err" THEN exprs
    ELSE LET closing == expect(exprs.tokens, "RightBracket")
         IN IF closing.result = "Err" THEN closing
            ELSE Parsed(closing.tokens, ArrayExpr(exprs.value))

ArrayParser(tokens) ==
    LET bracket == match_(tokens, "RightBracket") IN
    IF bracket.result = "Err" THEN bracket
    ELSE IF bracket.value THEN ArrayParser_expect(Parsed(bracket.tokens, <<>>))
    ELSE ArrayParser_expect(ArrayParser_loop(bracket.tokens, <<>>))

\* get_prefix_rule(&token.token_type), and the rule's parse
get_prefix_rule(token_type) ==
    token_type \in {"Number", "String", "True", "False", "LeftParen", "Identifier",
                    "Bang", "Minus", "LeftBracket"}

PrefixParser_parse(tokens, token) ==
    CASE token.token_type \in {"Number", "String", "True", "False"} -> LiteralParser(tokens, token)
      [] token.token_type = "LeftParen" -> GroupingParser(tokens)
      [] token.token_type = "Identifier" -> IdentifierParser(tokens, token)
      [] token.token_type \in {"Bang", "Minus"} -> UnaryParser(tokens, token)
      [] token.token_type = "LeftBracket" -> ArrayParser(tokens)

\* get_infix_rule(&token.token_type), and the rule's parse
InfixParser_parse(tokens, left, token) ==
    CASE token.token_type = "LeftParen" -> CallParser(tokens, left)
      [] token.token_type = "LeftBracket" -> SubscriptParser(tokens, left)
      [] token.token_type = "Dot" -> DotParser(tokens, left)
      [] OTHER -> InfixOperatorParser(tokens, left, token)

\* parse_precedence, after `let left = prefix.parse(self, token)?`
parse_precedence_infix(left, precedence) ==
    IF left.result = "Err" THEN left
    ELSE IF left.tokens # <<>> THEN parse_infix(left.tokens, left.value, precedence)
    ELSE left

parse_precedence(tokens, precedence) ==
    LET token == consume(tokens) IN
    IF token.result = "Err" THEN token
    ELSE IF ~get_prefix_rule(token.value.token_type)
    THEN ParserError(token.tokens, "UnexpectedToken")
    ELSE parse_precedence_infix(PrefixParser_parse(token.tokens, token.value), precedence)

\* parse_infix, after `infix = rule.parse(self, infix, token)?`
parse_infix_loop(infix, precedence) ==
    IF infix.result = "Err" THEN infix
    ELSE parse_infix(infix.tokens, infix.value, precedence)

parse_infix(tokens, left, precedence) ==
    IF tokens = <<>> THEN Parsed(tokens, left)
    ELSE IF precedence >= get_precedence(tokens[Len(tokens)]) THEN Parsed(tokens, left)
    ELSE LET token == consume(tokens)
         IN parse_infix_loop(InfixParser_parse(token.tokens, left, token.value), precedence)

\* parse_expression_statement, `self.expect(TokenType::Line)?`
parse_expression_statement_line(expr) ==
    IF expr.result = "Err" THEN expr
    ELSE LET line == expect(expr.tokens, "Line")
         IN IF line.result = "Err" THEN line ELSE Parsed(line.tokens, expr.value)

parse_expression_statement(tokens) ==
    parse_expression_statement_line(parse_expression(tokens))

RECURSIVE skip_lines(_)
skip_lines(tokens) ==
    IF check(tokens, "Line") THEN skip_lines(consume(tokens).tokens) ELSE tokens

\* `tokens.reverse()`
RECURSIVE reverse(_)
reverse(tokens) ==
    IF tokens = <<>> THEN <<>>
    ELSE Append(reverse(SubSeq(tokens, 2, Len(tokens))), tokens[1])

\* GreenParser::new, from the tokens the lexer returns for the source.
GreenParser_new(tokens) == [tokens |-> reverse(tokens)]

\* GreenParser::parse has not returned: `let mut exprs = vec![]`
NothingParsed == [result |-> "", exprs |-> <<>>, error |-> ""]

(***************************************************************************)
(* The programs interpreted: a prelude of declarations followed by one or  *)
(* two statements.                                                         *)
(***************************************************************************)
Num(n) == Literal(Number(n))

def_f_add ==
    FunctionExpr("f", <<"a", "b">>,
        <<Return(<<Binary(VarGet("a"), "Add", VarGet("b"))>>)>>)

def_f_mul ==
    FunctionExpr("f", <<"a", "b">>,
        <<VarAssign("c", Binary(VarGet("a"), "Multiply", VarGet("b"))),
          VarSet("c", Binary(VarGet("c"), "Subtract", VarGet("a"))),
          Return(<<Unary("Negate", VarGet("c"))>>)>>)

print_f_2_3 == Print_(Call(VarGet("f"), <<Num(2), Num(3)>>))

\* def f(a) var c = 0  c = a  if (a > 0) f(a - 1) end  return c end
def_f_recursive ==
    FunctionExpr("f", <<"a">>,
        <<VarAssign("c", Literal(Number(0))),
          VarSet("c", VarGet("a")),
          If(Binary(VarGet("a"), "GreaterThan", Literal(Number(0))),
             <<Call(VarGet("f"),
                    <<Binary(VarGet("a"), "Subtract", Literal(Number(1)))>>)>>),
          Return(<<VarGet("c")>>)>>)

Recursive ==
    {<<def_f_recursive, Print_(Call(VarGet("f"), <<Literal(Number(n))>>))>> :
        n \in 0 .. 1}

Conditions ==
    {Literal(True), Literal(False), Num(0), Literal(String("s")),
     VarGet("a"), VarGet("f"), Call(VarGet("f"), <<>>)}

FunctionPreludes ==
    {<<FunctionExpr("f", <<>>, <<>>)>>,
     <<FunctionExpr("f", <<"a">>, <<Return(<<VarGet("a")>>)>>)>>,
     <<FunctionExpr("f", <<"a", "b">>,
           <<Return(<<Binary(VarGet("a"), "Add", VarGet("b"))>>)>>)>>,
     <<FunctionExpr("f", <<"a", "b">>,
           <<VarAssign("c", Binary(VarGet("a"), "Multiply", VarGet("b"))),
             VarSet("c", Binary(VarGet("c"), "Subtract", VarGet("a"))),
             Return(<<Unary("Negate", VarGet("c"))>>)>>)>>}

Preludes ==
    {<<>>} \cup {<<VarAssign("a", Num(n))>> : n \in 0 .. MaxNum}
           \cup FunctionPreludes

Simple ==
    {VarAssign("a", Num(1)), VarAssign("b", VarGet("a")),
     VarSet("a", Num(2)), VarSet("a", Literal(False)),
     VarSet("a", Binary(VarGet("a"), "Add", Num(1))),
     Print_(VarGet("a")), Print_(Unary("Not", VarGet("a"))),
     Print_(Call(VarGet("f"), <<>>)),
     Print_(Call(VarGet("f"), <<Num(1)>>)),
     Print_(Call(VarGet("f"), <<Num(2), Num(3)>>)),
     Call(VarGet("f"), <<Num(1)>>),
     Print_(Binary(Literal(True), "Add", Num(1)))}

BinaryOperators ==
    {"Add", "Subtract", "Multiply", "Divide", "Equal", "GreaterThan", "LessThan"}

Arithmetic ==
    {Print_(Binary(VarGet("a"), op, Num(2))) : op \in BinaryOperators}
    \cup {Print_(Binary(Num(2), op, VarGet("a"))) : op \in BinaryOperators}

Loops ==
    {While(c, Block(<<VarSet("a", Literal(False))>>)) :
        c \in {Literal(False), VarGet("a"), Call(VarGet("f"), <<>>)}}
    \cup {While(Binary(VarGet("a"), op, Num(2)),
                Block(<<VarSet("a", Binary(VarGet("a"), "Add", Num(1)))>>)) :
            op \in {"LessThan", "BangEqual"}}
    \cup {While(Binary(VarGet("a"), "GreaterThan", Num(0)),
                Block(<<VarAssign("b", Binary(VarGet("a"), "Subtract", Num(1))),
                        VarSet("a", VarGet("b"))>>))}

Blocks ==
    {Block(<<VarAssign("a", Num(1)), x>>) :
        x \in {Print_(VarGet("a")), VarSet("a", Num(2)),
               Block(<<VarAssign("a", Num(2)), Print_(VarGet("a"))>>),
               Block(<<VarAssign("b", VarGet("a")), VarSet("b", Num(2)),
                       Print_(Binary(VarGet("a"), "Equal", VarGet("b")))>>),
               If(VarGet("a"), <<VarAssign("b", Num(2)), Print_(VarGet("b"))>>)}}

Statements ==
    Simple \cup Arithmetic \cup Loops \cup Blocks
    \cup {If(c, <<Print_(Num(1))>>) : c \in Conditions}
    \cup {IfElse(c, <<Print_(Num(1))>>, <<Print_(Num(2))>>) : c \in Conditions}

Bodies == {<<x>> : x \in Statements} \cup {<<x, y>> : x, y \in Statements}

\* var a = [1, 2]  a[i] = 3  print(a[j])
array_global(i, j) ==
    <<VarAssign("a", ArrayExpr(<<Num(1), Num(2)>>)),
      Subscript(VarGet("a"), Num(i), <<Num(3)>>),
      Print_(Subscript(VarGet("a"), Num(j), <<>>))>>

\* The same in a block, where a is a local.
array_local(i, j) == <<Block(array_global(i, j))>>

\* print(([1, 2][0] = 3)[0])
print_stored ==
    Print_(Subscript(Subscript(ArrayExpr(<<Num(1), Num(2)>>), Num(0), <<Num(3)>>),
                     Num(0), <<>>))

\* class A  var i = A()  var j = A()  var k = i  i.p = n  print(r.q)
instances(n, r, q) ==
    <<ClassExpr("A"),
      VarAssign("i", Call(VarGet("A"), <<>>)),
      VarAssign("j", Call(VarGet("A"), <<>>)),
      VarAssign("k", VarGet("i")),
      SetExpr(VarGet("i"), Num(n), "p"),
      Print_(GetExpr(VarGet(r), q))>>

\* The same with the value set and read twice: i.p = 1  i.p = 2  print(k.p)
instance_set_twice ==
    SubSeq(instances(1, "k", "p"), 1, 5)
    \o <<SetExpr(VarGet("k"), Num(2), "p"), Print_(GetExpr(VarGet("i"), "p"))>>

\* class A  print(A(e1, .., en))  print(1)
construct(args) ==
    <<ClassExpr("A"), Print_(Call(VarGet("A"), args)), Print_(Num(1))>>

Classes ==
    {instances(n, r, q) : n \in 0 .. 1, r \in {"i", "j", "k", "A"}, q \in {"p", "q"}}
    \cup {instance_set_twice}
    \cup {construct(args) : args \in {<<>>, <<Num(2)>>, <<Num(2), Num(3)>>}}
    \cup {<<ClassExpr("A"), SetExpr(VarGet("A"), Num(1), "p")>>,
          <<Block(<<ClassExpr("A"), VarAssign("i", Call(VarGet("A"), <<>>)),
                    Print_(SetExpr(VarGet("i"), Num(1), "p"))>>)>>}

\* do var a = 1  a = 2  var b = 3  print(b) end
local_after_assignment ==
    <<Block(<<VarAssign("a", Num(1)), VarSet("a", Num(2)),
              VarAssign("b", Num(3)), Print_(VarGet("b"))>>)>>

\* do if c then var a = 1 end  var b = 3  print(b) end
local_after_if(c) ==
    <<Block(<<If(c, <<VarAssign("a", Num(1))>>),
              VarAssign("b", Num(3)), Print_(VarGet("b"))>>)>>

\* do var a = 1  var b = 3  print(b)  print(b = 2)  print(a) end
locals_only ==
    <<Block(<<VarAssign("a", Num(1)), VarAssign("b", Num(3)), Print_(VarGet("b")),
              Print_(VarSet("b", Num(2))), Print_(VarGet("a"))>>)>>

Slots ==
    {local_after_assignment, locals_only}
    \cup {local_after_if(c) : c \in {Literal(True), Literal(False)}}

Arrays ==
    {array_global(i, j) : i, j \in 0 .. 2} \cup {array_local(i, j) : i, j \in 0 .. 2}
    \cup {<<print_stored>>, <<Print_(Subscript(Num(1), Num(0), <<>>))>>}

Modules == {p \o b : p \in Preludes, b \in Bodies} \cup Recursive \cup Arrays \cup Classes \cup Slots

(***************************************************************************)
(* VM::interpret and the instructions of VM::run.                          *)
(***************************************************************************)
\* interpret on a VM::new() instead of self.
interpret_on_new_vm(m) ==
    /\ status = "idle"
    /\ lines' = lines + 1
    /\ module' = m
    /\ steps' = 0
    /\ UNCHANGED <<output, compiler_vars>>
    /\ LET c == compile_module_compiler(m)
           r == call_value(push(VM_new, Closure(compile_module(m))), 0)
       IN IF c.panic # ""
          THEN vm' = vm /\ status' = "panic" /\ error' = c.panic
          ELSE /\ vm' = r.vm
               /\ status' = IF r.result = "Ok" THEN "running" ELSE r.result
               /\ error' = r.error

\* interpret(source), from the ModuleAst the parser returns for it: compile,
\* push the script's closure, call_value(0); run's loop follows.
interpret(m) ==
    /\ status = "idle"
    /\ lines' = lines + 1
    /\ module' = m
    /\ steps' = 0
    /\ UNCHANGED <<output, compiler_vars>>
    /\ LET c == compile_module_compiler(m)
           r == call_value(push(vm, Closure(compile_module(m))), 0)
       IN IF c.panic # ""
          THEN vm' = vm /\ status' = "panic" /\ error' = c.panic
          ELSE /\ vm' = r.vm
               /\ status' = IF r.result = "Ok" THEN "running" ELSE r.result
               /\ error' = r.error

\* One turn of run's loop reads the opcode `opcode` ...
fetch(opcode) ==
    /\ status = "running"
    /\ Len(vm.frames) > 0
    /\ steps < MaxSteps
    /\ frame(vm).ip < Len(vm_current_chunk(vm).code)
    /\ read_byte(vm) = opcode

\* ... and its handler, run on the VM past the opcode, returns r: on Ok the
\* loop goes on, and ends (interpret returns) once no frame is left.
step(r) ==
    /\ vm' = r.vm
    /\ steps' = steps + 1
    /\ error' = r.error
    /\ status' = CASE r.result = "Ok" ->
                          IF Len(r.vm.frames) = 0 THEN "idle" ELSE "running"
                   [] r.result = "Err" -> "error"
                   [] r.result = "panic" -> "panic"
    /\ UNCHANGED <<lines, module, compiler_vars>>

constant == fetch(OpConstant) /\ step(vm_constant(skip_byte(vm))) /\ UNCHANGED output

add ==
    /\ fetch(OpAdd)
    /\ step(binary_handler(skip_byte(vm), value_add(operand_a(vm), operand_b(vm))))
    /\ UNCHANGED output

subtract ==
    /\ fetch(OpSubtract)
    /\ step(binary_handler(skip_byte(vm), value_sub(operand_a(vm), operand_b(vm))))
    /\ UNCHANGED output

multiply ==
    /\ fetch(OpMultiply)
    /\ step(binary_handler(skip_byte(vm), value_mul(operand_a(vm), operand_b(vm))))
    /\ UNCHANGED output

divide ==
    /\ fetch(OpDivide)
    /\ step(binary_handler(skip_byte(vm), value_div(operand_a(vm), operand_b(vm))))
    /\ UNCHANGED output

greater ==
    /\ fetch(OpGreater)
    /\ step(binary_handler(skip_byte(vm), value_gt(operand_a(vm), operand_b(vm))))
    /\ UNCHANGED output

less ==
    /\ fetch(OpLess)
    /\ step(binary_handler(skip_byte(vm), value_lt(operand_a(vm), operand_b(vm))))
    /\ UNCHANGED output

equal ==
    /\ fetch(OpEqual)
    /\ step(binary_handler(skip_byte(vm), value_eq(operand_a(vm), operand_b(vm))))
    /\ UNCHANGED output

not == fetch(OpNot) /\ step(vm_not(skip_byte(vm))) /\ UNCHANGED output

negate == fetch(OpNegate) /\ step(vm_negate(skip_byte(vm))) /\ UNCHANGED output

ret == fetch(OpReturn) /\ step(vm_ret(skip_byte(vm))) /\ UNCHANGED output

define_global ==
    fetch(OpDefineGlobal) /\ step(vm_define_global(skip_byte(vm))) /\ UNCHANGED output

get_global ==
    fetch(OpGetGlobal) /\ step(vm_get_global(skip_byte(vm))) /\ UNCHANGED output

set_global ==
    fetch(OpSetGlobal) /\ step(vm_set_global(skip_byte(vm))) /\ UNCHANGED output

jump_if_false ==
    fetch(OpJumpIfFalse) /\ step(vm_jump_if_false(skip_byte(vm))) /\ UNCHANGED output

jump == fetch(OpJump) /\ step(vm_jump(skip_byte(vm))) /\ UNCHANGED output

loop_ == fetch(OpLoop) /\ step(vm_loop_(skip_byte(vm))) /\ UNCHANGED output

\* print: `let popped = self.pop()?; println!("{:?}", popped)`
print ==
    /\ fetch(OpPrint)
    /\ step(vm_pop(skip_byte(vm)))
    /\ output' = IF Len(vm.stack) = 0 THEN output ELSE Append(output, stack_last(vm))

nil == fetch(OpNil) /\ step(vm_nil(skip_byte(vm))) /\ UNCHANGED output

pop == fetch(OpPop) /\ step(vm_pop(skip_byte(vm))) /\ UNCHANGED output

get_local ==
    fetch(OpGetLocal) /\ step(vm_get_local(skip_byte(vm))) /\ UNCHANGED output

set_local ==
    fetch(OpSetLocal) /\ step(vm_set_local(skip_byte(vm))) /\ UNCHANGED output

call_instruction ==
    fetch(OpCall) /\ step(vm_call_instruction(skip_byte(vm))) /\ UNCHANGED output

closure == fetch(OpClosure) /\ step(vm_closure(skip_byte(vm))) /\ UNCHANGED output

new_array ==
    fetch(OpNewArray) /\ step(vm_new_array(skip_byte(vm))) /\ UNCHANGED output

index_subscript ==
    /\ fetch(OpIndexSubscript)
    /\ step(vm_index_subscript(skip_byte(vm)))
    /\ UNCHANGED output

store_subscript ==
    /\ fetch(OpStoreSubscript)
    /\ step(vm_store_subscript(skip_byte(vm)))
    /\ UNCHANGED output

class == fetch(OpClass) /\ step(vm_class(skip_byte(vm))) /\ UNCHANGED output

get_property ==
    fetch(OpGetProperty) /\ step(vm_get_property(skip_byte(vm))) /\ UNCHANGED output

set_property ==
    fetch(OpSetProperty) /\ step(vm_set_property(skip_byte(vm))) /\ UNCHANGED output

run ==
    \/ constant \/ add \/ subtract \/ multiply \/ divide \/ greater \/ less \/ equal
    \/ not \/ negate \/ ret \/ define_global \/ get_global \/ set_global
    \/ jump_if_false \/ jump \/ loop_ \/ print \/ nil \/ pop
    \/ get_local \/ set_local \/ call_instruction \/ closure
    \/ new_array \/ index_subscript \/ store_subscript
    \/ class \/ get_property \/ set_property

Init ==
    /\ vm = VM_new
    /\ output = <<>>
    /\ status = "idle"
    /\ error = ""
    /\ lines = 0
    /\ steps = 0
    /\ module = <<>>
    /\ comp = Compiler_new
    /\ ctl = <<>>
    /\ ops = 0
    /\ parser = GreenParser_new(<<>>)
    /\ parsed = NothingParsed

\* main: one program, interpreted on a fresh VM.
main == lines = 0 /\ \E m \in Modules : interpret(m)

Next == main \/ run

Spec == Init /\ [][Next]_vars

(***************************************************************************)
(* The compiler on its own, one construct at a time.                       *)
(*                                                                         *)
(* comp  the Compiler (its chain of CompilerInstances, `current` last)     *)
(* ctl   the constructs compile_expr is inside of, innermost last: for     *)
(*       each its kind, the jump offsets compile_if / compile_if_else hold *)
(*       in local variables, and `base`, the length the Local list had     *)
(*       when the construct's scope began                                  *)
(* ops   the constructs compiled so far                                    *)
(***************************************************************************)
Names == {"a", "b"}

Parameters == {<<"a", "a">>, <<"a", "b">>}

Open(kind, c) ==
    [kind |-> kind, base |-> Len(current(c).locals),
     then_jump |-> 0, else_jump |-> 0, exit_jump |-> 0, loop_start |-> 0]

top == ctl[Len(ctl)]

inside(kind) == Len(ctl) > 0 /\ top.kind = kind

compiling == comp.panic = "" /\ ops < MaxOps

compiled(c, k) ==
    /\ comp' = c
    /\ ctl' = k
    /\ ops' = ops + 1
    /\ UNCHANGED vm_vars

\* compile_block, up to its expressions: `do`
BlockBegin ==
    /\ compiling
    /\ compiled(begin_scope(comp), Append(ctl, Open("Block", comp)))

\* compile_block, after its expressions: `end`
BlockEnd ==
    /\ compiling
    /\ inside("Block")
    /\ compiled(end_scope(comp), SubSeq(ctl, 1, Len(ctl) - 1))

\* `var name = 1`
Var(name) ==
    /\ compiling
    /\ compiled(compile_var_expr(comp, VarAssign(name, Num(1))), ctl)

\* `var a = a`
VarSelf ==
    /\ compiling
    /\ compiled(compile_var_expr(comp, VarAssign("a", VarGet("a"))), ctl)

\* `print(name)`
Get(name) ==
    /\ compiling
    /\ compiled(compile_print(comp, Print_(VarGet(name))), ctl)

\* `a = 2`
Set ==
    /\ compiling
    /\ compiled(compile_set_var(comp, VarSet("a", Num(2))), ctl)

\* compile_if / compile_if_else, up to the then clause: `if true then`
IfBegin ==
    /\ compiling
    /\ LET c1 == compile_expr(comp, Literal(True))
           then_jump == emit_jump_offset(c1, OpJumpIfFalse)
       IN compiled(emit(emit_jump(c1, OpJumpIfFalse), OpPop),
                   Append(ctl, [Open("If", comp) EXCEPT !.then_jump = then_jump]))

\* compile_if_else, between the clauses: `else`
Else ==
    /\ compiling
    /\ inside("If")
    /\ LET else_jump == emit_jump_offset(comp, OpJump)
       IN compiled(emit(patch_jump(emit_jump(comp, OpJump), top.then_jump), OpPop),
                   [ctl EXCEPT ![Len(ctl)] =
                       [Open("Else", comp) EXCEPT !.else_jump = else_jump]])

\* compile_if after the then clause, compile_if_else after the else clause:
\* `end`
IfEnd ==
    /\ compiling
    /\ \/ /\ inside("If")
          /\ LET else_jump == emit_jump_offset(comp, OpJump)
                 c4 == emit(patch_jump(emit_jump(comp, OpJump), top.then_jump), OpPop)
             IN compiled(patch_jump(c4, else_jump), SubSeq(ctl, 1, Len(ctl) - 1))
       \/ /\ inside("Else")
          /\ compiled(patch_jump(comp, top.else_jump), SubSeq(ctl, 1, Len(ctl) - 1))

\* compile_while, up to the expressions of its body (a block): `while true do`
WhileBegin ==
    /\ compiling
    /\ LET loop_start == code_len(comp)
           c1 == compile_expr(comp, Literal(True))
           exit_jump == emit_jump_offset(c1, OpJumpIfFalse)
           c2 == emit(emit_jump(c1, OpJumpIfFalse), OpPop)
       IN compiled(begin_scope(c2),
                   Append(ctl, [Open("While", c2) EXCEPT
                                    !.exit_jump = exit_jump,
                                    !.loop_start = loop_start]))

\* compile_while, after the expressions of its body: `end`
WhileEnd ==
    /\ compiling
    /\ inside("While")
    /\ compiled(emit(patch_jump(emit_loop(end_scope(comp), top.loop_start),
                                top.exit_jump), OpPop),
                SubSeq(ctl, 1, Len(ctl) - 1))

\* compile_function, up to the expressions of the body: `def f(parameters)`
FunBegin(parameters) ==
    /\ compiling
    /\ LET c1 == function_begin(comp, "f", parameters)
       IN compiled(begin_scope(c1), Append(ctl, Open("Function", c1)))

\* compile_function, after the expressions of the body: `end`
FunEnd ==
    /\ compiling
    /\ inside("Function")
    /\ compiled(function_end(end_scope(comp), "f"), SubSeq(ctl, 1, Len(ctl) - 1))

\* `return` and `return a`
ReturnValues == {<<>>, <<VarGet("a")>>}

Ret(expr) ==
    /\ compiling
    /\ compiled(compile_return(comp, Return(expr)), ctl)

NextCompiler ==
    \/ BlockBegin
    \/ BlockEnd
    \/ \E name \in Names : Var(name)
    \/ VarSelf
    \/ \E name \in Names : Get(name)
    \/ Set
    \/ IfBegin
    \/ Else
    \/ IfEnd
    \/ WhileBegin
    \/ WhileEnd
    \/ \E parameters \in Parameters : FunBegin(parameters)
    \/ FunEnd
    \/ \E expr \in ReturnValues : Ret(expr)

SpecCompiler == Init /\ [][NextCompiler]_vars

(***************************************************************************)
(* The constant pool of one chunk: the compiler on a script that is one    *)
(* statement, `print(1)`, `print("s")` or `print(a)`, written again and    *)
(* again, each adding a constant.  `len as u8 - 1` in Chunk::add_constant  *)
(* underflows when the length is a multiple of 256: a panic in a build     *)
(* with overflow checks, the wrapped value in a build without.             *)
(***************************************************************************)
Repeated ==
    {<<Print_(Num(1))>>, <<Print_(Literal(String("s")))>>, <<Print_(VarGet("a"))>>}

add_constant_overflows(c) == U8(Len(current_chunk(c).constants) + 1) = 0

InitPool ==
    /\ vm = VM_new
    /\ output = <<>>
    /\ status = "idle"
    /\ error = ""
    /\ lines = 0
    /\ steps = 0
    /\ module \in Repeated
    /\ comp = Compiler_new
    /\ ctl = <<>>
    /\ ops = 0
    /\ parser = GreenParser_new(<<>>)
    /\ parsed = NothingParsed

compile_statement ==
    /\ comp.panic = ""
    /\ ops < MaxConstants
    /\ \E overflow_checks \in BOOLEAN :
         comp' = IF overflow_checks /\ add_constant_overflows(comp)
                 THEN panic(comp, "attempt to subtract with overflow")
                 ELSE compile_expr(comp, module[1])
    /\ ops' = ops + 1
    /\ UNCHANGED <<vm_vars, ctl>>

SpecPool == InitPool /\ [][compile_statement]_vars

(***************************************************************************)
(* A long loop body: the compiler inside `while true do var a = 1`, with   *)
(* the statement `print(a)` (GetLocal, slot, Print) written again and      *)
(* again, StatementsPerBlock of them in a step, until `end`.               *)
(***************************************************************************)
InitJumps ==
    /\ vm = VM_new
    /\ output = <<>>
    /\ status = "idle"
    /\ error = ""
    /\ lines = 0
    /\ steps = 0
    /\ module = <<>>
    /\ LET c1 == compile_expr(Compiler_new, Literal(True))
           c2 == emit(emit_jump(c1, OpJumpIfFalse), OpPop)
       IN /\ comp = compile_var_expr(begin_scope(c2), VarAssign("a", Num(1)))
          /\ ctl = <<[Open("While", c2) EXCEPT
                         !.exit_jump = emit_jump_offset(c1, OpJumpIfFalse),
                         !.loop_start = code_len(Compiler_new)]>>
    /\ ops = 0
    /\ parser = GreenParser_new(<<>>)
    /\ parsed = NothingParsed

compile_statements ==
    /\ comp.panic = ""
    /\ inside("While")
    /\ steps < MaxBlocks
    /\ comp' = compile_exprs(comp, [i \in 1 .. StatementsPerBlock |->
                                       Print_(VarGet("a"))])
    /\ steps' = steps + 1
    /\ UNCHANGED <<vm, output, status, error, lines, module, ctl, ops, parser_vars>>

NextJumps == compile_statements \/ WhileEnd

SpecJumps == InitJumps /\ [][NextJumps]_vars

(***************************************************************************)
(* The REPL (src/repl.rs): Repl::run reads lines and has each interpreted  *)
(* by the one VM of the Repl.  status "exit" is process::exit(1).          *)
(***************************************************************************)
Lines ==
    {<<VarAssign("a", Num(5))>>,
     <<Print_(VarGet("a"))>>,
     <<VarSet("a", Num(2))>>,
     <<def_f_add>>,
     <<print_f_2_3>>,
     <<Print_(Binary(Literal(True), "Add", Num(1)))>>,
     <<Return(<<>>)>>,
     <<print_stored>>,
     <<Block(<<If(Literal(False), <<VarAssign("a", Num(1)), VarAssign("b", Num(2))>>)>>)>>,
     <<ClassExpr("A"), VarAssign("i", Call(VarGet("A"), <<>>))>>,
     <<Print_(SetExpr(VarGet("i"), Num(1), "p"))>>,
     <<Print_(GetExpr(VarGet("i"), "p"))>>,
     <<While(Binary(VarGet("a"), "LessThan", Num(3)),
             Block(<<VarSet("a", Binary(VarGet("a"), "Add", Num(1)))>>))>>,
     <<Block(<<VarAssign("c", Num(3)),
               VarSet("c", Binary(Binary(VarGet("c"), "Multiply", Num(2)),
                                  "Subtract", Num(2))),
               Print_(Unary("Negate", Binary(VarGet("c"), "Divide", Num(2))))>>)>>,
     <<If(Binary(VarGet("a"), "Equal", Num(5)),
          <<Print_(Unary("Not", Binary(VarGet("a"), "GreaterThan", Num(0))))>>)>>}

\* Repl::run, a line that parses to the ModuleAst m: repl.eval(&line)
eval(m) == lines < MaxLines /\ interpret(m)

\* Repl::run, a line GreenParser::parse returns Err for: interpret prints
\* the error and calls exit(1).
eval_syntax_error ==
    /\ lines < MaxLines
    /\ status = "idle"
    /\ status' = "exit"
    /\ error' = "syntax error"
    /\ lines' = lines + 1
    /\ UNCHANGED <<vm, output, steps, module, compiler_vars>>

NextRepl == (\E m \in Lines : eval(m)) \/ eval_syntax_error \/ run

SpecRepl == Init /\ [][NextRepl]_vars

(***************************************************************************)
(* The parser on its own: GreenParser::parse on the tokens of a source     *)
(* of one or two expression statements, each a call or an array literal    *)
(* of up to MaxArgs arguments or elements.                                 *)
(***************************************************************************)
\* The expressions written as arguments and elements: 1, a, -2, (3), 1 + a
Arguments ==
    {Num(1), VarGet("a"), Unary("Negate", Num(2)), Grouping(Num(3)),
     Binary(Num(1), "Add", VarGet("a"))}

ArgumentLists == UNION {[1 .. n -> Arguments] : n \in 0 .. MaxArgs}

ExpressionStatements ==
    {Call(VarGet("f"), args) : args \in ArgumentLists}
    \cup {ArrayExpr(exprs) : exprs \in ArgumentLists}

Sources ==
    {<<e>> : e \in ExpressionStatements}
    \cup {<<Call(VarGet("f"), <<Num(1)>>), e>> : e \in ExpressionStatements}

\* The tokens of the source text of an expression, as Lexer::parse returns
\* them: `f(e1, ..., en)`, `[e1, ..., en]`, `-e`, `(e)`, `l + r`, a name, a
\* number.
RECURSIVE tokens_of(_)
RECURSIVE separated(_)
separated(exprs) ==
    IF exprs = <<>> THEN <<>>
    ELSE IF Len(exprs) = 1 THEN tokens_of(exprs[1])
    ELSE tokens_of(exprs[1]) \o <<Token("Comma", ",")>> \o separated(Tail(exprs))

tokens_of(expr) ==
    CASE expr.kind = "Literal" -> <<Token("Number", Digits[expr.literal.n + 1])>>
      [] expr.kind = "VarGet" -> <<Token("Identifier", expr.variable)>>
      [] expr.kind = "Unary" -> <<Token("Minus", "-")>> \o tokens_of(expr.expr)
      [] expr.kind = "Grouping" ->
           <<Token("LeftParen", "(")>> \o tokens_of(expr.expr) \o <<Token("RightParen", ")")>>
      [] expr.kind = "Binary" ->
           tokens_of(expr.lhs) \o <<Token("Plus", "+")>> \o tokens_of(expr.rhs)
      [] expr.kind = "Call" ->
           tokens_of(expr.callee) \o <<Token("LeftParen", "(")>> \o separated(expr.args)
               \o <<Token("RightParen", ")")>>
      [] expr.kind = "Array" ->
           <<Token("LeftBracket", "[")>> \o separated(expr.exprs)
               \o <<Token("RightBracket", "]")>>

\* The tokens of a source: each statement on a line of its own, then EOF.
RECURSIVE source_tokens(_)
source_tokens(exprs) ==
    IF exprs = <<>> THEN <<Token("EOF", "")>>
    ELSE tokens_of(exprs[1]) \o <<Token("Line", "\n")>> \o source_tokens(Tail(exprs))

InitParser ==
    /\ vm = VM_new
    /\ output = <<>>
    /\ status = "idle"
    /\ error = ""
    /\ lines = 0
    /\ steps = 0
    /\ module \in Sources
    /\ comp = Compiler_new
    /\ ctl = <<>>
    /\ ops = 0
    /\ parser = GreenParser_new(source_tokens(module))
    /\ parsed = NothingParsed

\* GreenParser::parse, one turn of `while !parser.match_(TokenType::EOF)?`:
\* skip_lines, then parse_top_level_expression, which for a token that is no
\* keyword is parse_expression_statement.
parse_top_level_expression ==
    /\ parsed.result = ""
    /\ ~check(parser.tokens, "EOF")
    /\ \E expr \in {parse_expression_statement(skip_lines(parser.tokens))} :
          /\ parser' = [tokens |-> expr.tokens]
          /\ parsed' = IF expr.result = "Err"
                       THEN [parsed EXCEPT !.result = "Err", !.error = expr.error]
                       ELSE [parsed EXCEPT !.exprs = Append(@, expr.value)]
    /\ UNCHANGED <<vm, output, status, error, lines, steps, module, comp, ctl, ops>>

\* GreenParser::parse, `parser.match_(TokenType::EOF)?` is true:
\* Ok(ModuleAst::new(exprs))
parse_eof ==
    /\ parsed.result = ""
    /\ check(parser.tokens, "EOF")
    /\ LET eof == match_(parser.tokens, "EOF")
       IN /\ parser' = [tokens |-> eof.tokens]
          /\ parsed' = [parsed EXCEPT !.result = eof.result, !.error = eof.error]
    /\ UNCHANGED <<vm, output, status, error, lines, steps, module, comp, ctl, ops>>

NextParser == parse_top_level_expression \/ parse_eof

SpecParser == InitParser /\ [][NextParser]_vars

(***************************************************************************)
(* Properties.                                                             *)
(***************************************************************************)
\* The script has executed all its statements: its frame is the only one and
\* stands at the Nil, Return that end_compiler appends.
at_end_of_script ==
    /\ status = "running"
    /\ Len(vm.frames) = 1
    /\ frame(vm).ip = Len(vm_current_chunk(vm).code) - 2

\* C1: stack balance.  Every top-level form of the programs interpreted is
\* statement-like (global var and function declarations, print, if, if/else,
\* while, block, an assignment or a call on its own), so when the script has
\* executed them all the value stack is as high as when it started: it holds
\* the script's closure and nothing else.
C1_StackBalance == at_end_of_script => Len(vm.stack) = 1

\* The 0-based index of the most recently declared Local called name.
most_recent(locals, name) ==
    CHOOSE i \in 0 .. Len(locals) - 1 :
        /\ locals[i + 1].name = name
        /\ \A j \in i + 1 .. Len(locals) - 1 : locals[j + 1].name # name

\* C2: when the Local list of the active CompilerInstance has entries called
\* N, resolve_local(N) is the index of the most recently declared of them.
\* The Locals of one name were declared in scopes of different depths.
shadowing_only(locals) ==
    \A i, j \in 1 .. Len(locals) :
        i # j /\ locals[i].name = locals[j].name => locals[i].depth # locals[j].depth

C2_ResolveMostRecent ==
    comp.panic = "" /\ shadowing_only(current(comp).locals) =>
        \A name \in Names :
            (\E i \in 1 .. Len(current(comp).locals) :
                 current(comp).locals[i].name = name)
            => resolve_local(comp, name).arg
                   = most_recent(current(comp).locals, name)

\* The length the Local list had when the innermost scope open in k began.
RECURSIVE scope_base(_)
scope_base(k) ==
    IF Len(k) = 0 THEN 0
    ELSE IF k[Len(k)].kind \in {"Block", "While", "Function"} THEN k[Len(k)].base
    ELSE scope_base(SubSeq(k, 1, Len(k) - 1))

\* A Local called name was declared in the innermost open scope.
declared_in_scope(name) ==
    \E i \in scope_base(ctl) + 1 .. Len(current(comp).locals) :
        current(comp).locals[i].name = name

\* C3: declaring a local (scope depth > 0) is a compile error exactly when
\* the name was already declared in the same scope, two parameters of one
\* function included; a name of an enclosing scope only is accepted.
C3_Redeclaration ==
    [][/\ \A name \in Names :
            Var(name) /\ current(comp).scope_depth > 0
            => (comp'.panic # "" <=> declared_in_scope(name))
       /\ \A parameters \in Parameters :
            FunBegin(parameters)
            => (comp'.panic # "" <=> parameters[1] = parameters[2])]_vars

\* C4: `var a = a` at scope depth > 0 is rejected with the "own initializer"
\* compile error, whatever `a` the enclosing scopes or the globals hold.
C4_OwnInitializer ==
    [][VarSelf /\ current(comp).scope_depth > 0
       => comp'.panic = "Can't read local variable in it's own initializer."]_vars

\* C5: the end_scope of a block removes from the Local list exactly the
\* Locals declared since the block's begin_scope, and emits one Pop for each.
C5_ScopeLIFO ==
    [][BlockEnd =>
        LET locals == current(comp).locals
            declared == Len(locals) - top.base
        IN /\ current(comp').locals = SubSeq(locals, 1, top.base)
           /\ current_chunk(comp').code
                  = current_chunk(comp).code \o [i \in 1 .. declared |-> OpPop]]_vars

\* The instruction just executed: the opcode at ip - size in the current
\* chunk, for an instruction of `size` bytes that did not jump.
executed(opcode, size) ==
    /\ status = "running"
    /\ Len(vm.frames) > 0
    /\ frame(vm).ip >= size
    /\ vm_current_chunk(vm).code[frame(vm).ip - size + 1] = opcode

\* C6: JumpIfFalse skips the arm or loop body (ip moves past the operand and
\* on by the operand, which is not 0) when the value on top of the stack is
\* False or Nil, and for every other value goes on to the arm (ip moves past
\* the operand only); the value stays on the stack.
C6_JumpIfFalse ==
    [][fetch(OpJumpIfFalse) /\ Len(vm.stack) > 0 =>
        LET operand == read_short(skip_byte(vm))
            cond == stack_last(vm)
        IN /\ operand > 0
           /\ status' = "running"
           /\ vm'.stack = vm.stack
           /\ frame(vm').ip = IF cond.t \in {"False", "Nil"}
                              THEN frame(vm).ip + 3 + operand
                              ELSE frame(vm).ip + 3]_vars

\* A JumpIfFalse found Number 0 on the stack and went on to the arm.
C6_Witness == executed(OpJumpIfFalse, 3) /\ stack_last(vm) = Number(0)

\* The frames of v without their ips.
windows(v) ==
    [i \in 1 .. Len(v.frames) |->
        [closure |-> v.frames[i].closure, stack_start |-> v.frames[i].stack_start]]

finished(m) == module = m /\ lines = 1 /\ status = "idle"

\* C8: Call n on a Closure of arity n pushes a frame whose stack_start is
\* the callee's slot, n + 1 below the top, so that slots 1 .. n are the
\* arguments in source order; Return from a called function pops its frame
\* and replaces the window from stack_start up by the returned value.  So
\* `def f(a, b) return a + b end print(f(2, 3))` prints 5, and a body that
\* tells a from b (- (a * b - a)) prints -4.
C8_CallReturn ==
    /\ [][fetch(OpCall) =>
            LET n == read_byte(skip_byte(vm))
                start == Len(vm.stack) - n - 1
            IN start >= 0 /\ vm.stack[start + 1].t = "Closure"
               /\ vm.stack[start + 1].closure.function.arity = n
               => /\ status' = "running"
                  /\ vm'.stack = vm.stack
                  /\ Len(vm'.frames) = Len(vm.frames) + 1
                  /\ frame(vm') = [closure |-> vm.stack[start + 1].closure,
                                   ip |-> 0, stack_start |-> start]
                  /\ vm'.frames[Len(vm.frames)]
                         = [frame(vm) EXCEPT !.ip = @ + 2]]_vars
    /\ [][fetch(OpReturn) /\ Len(vm.frames) > 1 /\ Len(vm.stack) > 0 =>
            /\ vm'.frames = SubSeq(vm.frames, 1, Len(vm.frames) - 1)
            /\ vm'.stack = Append(SubSeq(vm.stack, 1, frame(vm).stack_start),
                                  stack_last(vm))]_vars
    /\ [](finished(<<def_f_add, print_f_2_3>>) => output = <<Number(5)>>)
    /\ [](finished(<<def_f_mul, print_f_2_3>>) => output = <<Number(-4)>>)

\* f(2, 3) has returned to the script and its result has been printed.
C8_Witness == finished(<<def_f_mul, print_f_2_3>>) /\ output = <<Number(-4)>>

\* C9: Call n on a Closure whose arity is not n aborts the run: no frame is
\* pushed, the frames are those of before the Call, and no instruction
\* executes afterwards.
C9_ArityMismatch ==
    /\ [][fetch(OpCall) =>
            LET n == read_byte(skip_byte(vm))
                start == Len(vm.stack) - n - 1
            IN start >= 0 /\ vm.stack[start + 1].t = "Closure"
               /\ vm.stack[start + 1].closure.function.arity # n
               => /\ status' \in {"error", "panic"}
                  /\ windows(vm') = windows(vm)
                  /\ vm'.stack = vm.stack]_vars
    /\ [][status \notin {"error", "panic"}]_vars

\* A Call has aborted the run on an arity mismatch.
C9_Witness ==
    /\ status = "panic"
    /\ error = "Expected a different number of arguments."
    /\ vm_current_chunk(vm).code[frame(vm).ip - 1] = OpCall

\* The name a GetGlobal / SetGlobal about to execute reads.
global_name == read_constant(skip_byte(vm)).s

\* C10: SetGlobal on a name that is no key of globals returns UndefinedGlobal
\* and leaves globals as they were; on a key it binds the key to the value on
\* top of the stack, which stays there; GetGlobal on a name that is no key
\* returns UndefinedGlobal and pushes nothing.  `var a = 1 a = 2 print(a)`
\* prints 2.
C10_Globals ==
    /\ [][fetch(OpSetGlobal) =>
            IF global_name \in DOMAIN vm.globals
            THEN /\ Len(vm.stack) > 0
                 /\ status' = "running"
                 /\ vm'.stack = vm.stack
                 /\ DOMAIN vm'.globals = DOMAIN vm.globals
                 /\ \A n \in DOMAIN vm.globals :
                        vm'.globals[n] = IF n = global_name THEN stack_last(vm)
                                         ELSE vm.globals[n]
            ELSE /\ status' = "error"
                 /\ error' = "UndefinedGlobal"
                 /\ vm'.globals = vm.globals
                 /\ vm'.stack = vm.stack]_vars
    /\ [][fetch(OpGetGlobal) /\ global_name \notin DOMAIN vm.globals =>
            /\ status' = "error"
            /\ error' = "UndefinedGlobal"
            /\ vm'.globals = vm.globals
            /\ vm'.stack = vm.stack]_vars
    /\ [](finished(<<VarAssign("a", Num(1)), VarSet("a", Num(2)),
                     Print_(VarGet("a"))>>) => output = <<Number(2)>>)

\* A SetGlobal of an undeclared name has failed.
C10_Witness ==
    /\ status = "error"
    /\ error = "UndefinedGlobal"
    /\ vm_current_chunk(vm).code[frame(vm).ip - 1] = OpSetGlobal
    /\ vm.globals = NoGlobals

\* The bytes of the instruction of an opcode, its operand included.
instruction_size(opcode) ==
    CASE opcode \in {OpJumpIfFalse, OpJump, OpLoop} -> 3
      [] opcode \in {OpConstant, OpDefineGlobal, OpGetGlobal, OpSetGlobal,
                     OpGetLocal, OpSetLocal, OpCall, OpClosure, OpNewArray,
                     OpClass, OpGetProperty, OpSetProperty} -> 2
      [] OTHER -> 1

\* The offsets, from i on, at which the instructions of code begin.
RECURSIVE instructions(_, _)
instructions(code, i) ==
    IF i >= Len(code) THEN {}
    ELSE {i} \cup instructions(code, i + instruction_size(code[i + 1]))

\* The ip the VM has after it executes the JumpIfFalse (on False), Jump or
\* Loop at offset i of function's chunk.
target(function, i) ==
    LET v == [VM_new EXCEPT
                 !.stack = <<False>>,
                 !.frames = <<[CallFrame_new(GreenClosure_new(function), 0)
                                  EXCEPT !.ip = i + 1]>>]
        opcode == function.chunk.code[i + 1]
        r == CASE opcode = OpJumpIfFalse -> vm_jump_if_false(v)
               [] opcode = OpJump -> vm_jump(v)
               [] opcode = OpLoop -> vm_loop_(v)
    IN frame(r.vm).ip

\* Every jump of function's chunk lands on the first byte of an instruction
\* of the chunk.
well_targeted(function) ==
    LET code == function.chunk.code IN
    \A i \in instructions(code, 0) :
        code[i + 1] \in {OpJumpIfFalse, OpJump, OpLoop}
        => target(function, i) \in instructions(code, 0)

\* target(i) is the last instruction emitted, a Pop.
lands_on_last_pop(c, i) ==
    /\ target(current(c).function, i) = code_len(c) - 1
    /\ current_chunk(c).code[code_len(c)] = OpPop

C11_GlobalsPersist ==
    /\ [][DOMAIN vm.globals \subseteq DOMAIN vm'.globals]_vars
    /\ [][\A n \in DOMAIN vm.globals \cap DOMAIN vm'.globals :
            vm'.globals[n] # vm.globals[n]
            => /\ fetch(OpDefineGlobal) \/ fetch(OpSetGlobal)
               /\ global_name = n
               /\ vm'.globals[n] = stack_last(vm)]_vars
    /\ [][fetch(OpDefineGlobal) /\ Len(vm.stack) > 0 =>
            /\ global_name \in DOMAIN vm'.globals
            /\ vm'.globals[global_name] = stack_last(vm)]_vars
    /\ [][fetch(OpGetGlobal) /\ global_name \in DOMAIN vm.globals =>
            vm'.stack = Append(vm.stack, vm.globals[global_name])]_vars
    /\ [](module = <<Print_(VarGet("a"))>> /\ status = "idle" /\ lines > 0
          => /\ "a" \in DOMAIN vm.globals
             /\ Len(output) > 0
             /\ output[Len(output)] = vm.globals["a"])

\* `print(a)` has written 5, two lines after `var a = 5`.
C11_Witness ==
    /\ lines = 3
    /\ status = "idle"
    /\ module = <<Print_(VarGet("a"))>>
    /\ output = <<Number(5)>>
    /\ "f" \in DOMAIN vm.globals

\* C12: Add, Subtract, Multiply, Divide, Equal, Greater or Less executed with
\* two operands on the stack of which one is no Number ends the run with
\* "Operand must be a number.": both operands are gone from the stack and
\* nothing is pushed in their place, nothing is written, and no instruction
\* is executed after it.
BinaryOpcodes ==
    {OpAdd, OpSubtract, OpMultiply, OpDivide, OpEqual, OpGreater, OpLess}

C12_TypeError ==
    /\ [][(/\ \E opcode \in BinaryOpcodes : fetch(opcode)
           /\ Len(vm.stack) >= 2
           /\ operand_a(vm).t # "Number" \/ operand_b(vm).t # "Number")
          => /\ status' \in {"error", "panic"}
             /\ error' = "Operand must be a number."
             /\ vm'.stack = SubSeq(vm.stack, 1, Len(vm.stack) - 2)
             /\ output' = output]_vars
    /\ [][~(status \in {"error", "panic"}
            /\ error = "Operand must be a number.")]_vars

\* `2 < a` with a = false has ended the run.
C12_Witness ==
    /\ status = "panic"
    /\ error = "Operand must be a number."
    /\ module = <<VarAssign("a", Num(1)), VarSet("a", Literal(False)),
                  Print_(Binary(Num(2), "LessThan", VarGet("a")))>>
    /\ output = <<>>

C14_FunctionLocal ==
    [][FunEnd /\ Len(comp.insts) > 1 /\ comp'.panic = "" =>
        LET enclosing == comp.insts[Len(comp.insts) - 1]
            code == current_chunk(comp').code
        IN IF enclosing.scope_depth = 0
           THEN /\ Len(code) >= 4
                /\ code[Len(code) - 3] = OpClosure
                /\ code[Len(code) - 1] = OpDefineGlobal
                /\ current(comp').locals = enclosing.locals
           ELSE /\ code[Len(code) - 1] = OpClosure
                /\ current(comp').locals
                     = Append(enclosing.locals,
                              [name |-> "f", depth |-> enclosing.scope_depth])]_vars

\* C15: a return compiled while the current instance is the script, inside
\* any blocks, ifs and whiles, stops the compiler with "Can't return from top
\* level code." and emits nothing; compiled inside a function, again inside
\* any blocks, a return without a value appends Nil, Return to the function's
\* chunk and `return a` appends the two bytes that read a, then Return.
C15_Return ==
    [][\A expr \in ReturnValues : Ret(expr) =>
        LET code == current_chunk(comp).code
            code_ == current_chunk(comp').code
        IN IF current(comp).function_type = "Script"
           THEN /\ comp'.panic = "Can't return from top level code."
                /\ code_ = code
           ELSE /\ comp'.panic = ""
                /\ Len(comp'.insts) = Len(comp.insts)
                /\ IF expr = <<>>
                   THEN code_ = code \o <<OpNil, OpReturn>>
                   ELSE /\ Len(code_) = Len(code) + 3
                        /\ SubSeq(code_, 1, Len(code)) = code
                        /\ code_[Len(code) + 1] \in {OpGetLocal, OpGetGlobal}
                        /\ code_[Len(code) + 3] = OpReturn]_vars

\* A return without a value, compiled in a block of a function's body.
C15_Witness ==
    /\ Len(comp.insts) = 2
    /\ inside("Block")
    /\ comp.panic = ""
    /\ Len(current_chunk(comp).code) >= 2
    /\ SubSeq(current_chunk(comp).code, Len(current_chunk(comp).code) - 1,
              Len(current_chunk(comp).code)) = <<OpNil, OpReturn>>

\* C16: a statement that adds a constant to a chunk already holding 256 is
\* rejected: the compiler stops and emits nothing; up to there, when the
\* statement is not rejected, the operand emitted is the index of the
\* constant just added, the last of the pool.
C16_ConstantPool ==
    [][compile_statement =>
        LET chunk == current_chunk(comp)
            chunk_ == current_chunk(comp')
        IN IF Len(chunk.constants) >= 256
           THEN comp'.panic # "" /\ chunk_ = chunk
           ELSE \/ comp'.panic # "" /\ chunk_ = chunk
                \/ /\ Len(chunk_.constants) = Len(chunk.constants) + 1
                   /\ Len(chunk_.code) = Len(chunk.code) + 3
                   /\ chunk_.code[Len(chunk.code) + 2] = Len(chunk_.constants) - 1]_vars

\* C17: at the `end` of a while whose Loop would have to go back, or whose
\* exit JumpIfFalse forward, by more than 65535 bytes the compiler stops;
\* otherwise the two operand bytes of each are the distance, high byte first.
C17_JumpDistance ==
    [][WhileEnd =>
        LET code_ == current_chunk(comp').code
            n == Len(code_)
            backward == (n - 1) - top.loop_start
            forward == (n - 1) - top.exit_jump - 2
        IN IF backward > 65535 \/ forward > 65535
           THEN comp'.panic # ""
           ELSE /\ comp'.panic = ""
                /\ code_[n - 3] = OpLoop
                /\ code_[n - 2] * 256 + code_[n - 1] = backward
                /\ code_[top.exit_jump + 1] * 256 + code_[top.exit_jump + 2]
                     = forward]_vars

\* C18: the REPL outlives every line: in no state has a line ended the
\* process, by exit(1) after a syntax error ("exit"), by the panic of a
\* compile error or of a handler ("panic"), or by the unwrap of the
\* RuntimeError that run returned ("error").
C18_ReplRecovers == status \notin {"exit", "panic", "error"}

\* C19: each failure of an instruction ends run with the RuntimeError of its
\* kind (status "error"), never with a panic and never going on: a binary
\* operator on a non-number and a Call of a value that is no Closure with
\* ArgumentTypes, GetGlobal or SetGlobal of an absent name with
\* UndefinedGlobal, Pop, Print or Not on an empty stack with StackEmpty.
type_error ==
    \/ /\ \E opcode \in BinaryOpcodes : fetch(opcode)
       /\ Len(vm.stack) >= 2
       /\ operand_a(vm).t # "Number" \/ operand_b(vm).t # "Number"
    \/ /\ fetch(OpCall)
       /\ Len(vm.stack) > read_byte(skip_byte(vm))
       /\ vm.stack[Len(vm.stack) - read_byte(skip_byte(vm))].t
            \notin {"Closure", "Class"}

undefined_global ==
    /\ fetch(OpGetGlobal) \/ fetch(OpSetGlobal)
    /\ Len(vm.stack) > 0
    /\ global_name \notin DOMAIN vm.globals

stack_empty ==
    /\ fetch(OpPop) \/ fetch(OpPrint) \/ fetch(OpNot)
    /\ Len(vm.stack) = 0

C19_RuntimeErrors ==
    /\ [][type_error => status' = "error" /\ error' = "ArgumentTypes"]_vars
    /\ [][undefined_global => status' = "error" /\ error' = "UndefinedGlobal"]_vars
    /\ [][stack_empty => status' = "error" /\ error' = "StackEmpty"]_vars

\* C20: `a[i] = 3` on the array [1, 2] held by the variable a, global or
\* local to a block, with i in range, is seen by a later read through a:
\* `print(a[j])` writes 3 for j = i and the element a had at j otherwise.
C20_ArrayStore ==
    \A i, j \in 0 .. 1 :
        finished(array_global(i, j)) \/ finished(array_local(i, j))
        => output = <<IF j = i THEN Number(3) ELSE Number(j + 1)>>

\* C21: SetProperty p with v on top of an Instance replaces the two by v and
\* binds p to v in the fields of that Instance alone: its other fields and
\* every other Instance are as they were.  GetProperty p on an Instance
\* replaces it by the value its fields bind p to, and returns
\* UndefinedProperty when they bind none.  Fields change by SetProperty only.
\* So after `i.p = n`, with k = i and j another Instance of the class,
\* print(i.p) and print(k.p) write n, and j.p, i.q are undefined.
property_name == read_constant(skip_byte(vm)).s

C21_InstanceFields ==
    /\ [][fetch(OpSetProperty) /\ Len(vm.stack) >= 2
          /\ vm.stack[Len(vm.stack) - 1].t = "Instance" =>
            LET i == vm.stack[Len(vm.stack) - 1].instance + 1
            IN /\ status' = "running"
               /\ vm'.stack = Append(SubSeq(vm.stack, 1, Len(vm.stack) - 2),
                                     stack_last(vm))
               /\ Len(vm'.heap) = Len(vm.heap)
               /\ property_name \in DOMAIN vm'.heap[i].fields
               /\ vm'.heap[i].fields[property_name] = stack_last(vm)
               /\ \A r \in DOMAIN vm.heap : r # i => vm'.heap[r] = vm.heap[r]
               /\ \A q \in DOMAIN vm.heap[i].fields :
                    q # property_name
                    => vm'.heap[i].fields[q] = vm.heap[i].fields[q]]_vars
    /\ [][fetch(OpGetProperty) /\ Len(vm.stack) >= 1
          /\ stack_last(vm).t = "Instance" =>
            LET fields == vm.heap[stack_last(vm).instance + 1].fields
            IN IF property_name \in DOMAIN fields
               THEN /\ status' = "running"
                    /\ vm'.stack = Append(SubSeq(vm.stack, 1, Len(vm.stack) - 1),
                                          fields[property_name])
               ELSE status' = "error" /\ error' = "UndefinedProperty"]_vars
    /\ [][\A r \in DOMAIN vm.heap :
            r \in DOMAIN vm'.heap /\ (vm'.heap[r] = vm.heap[r] \/ fetch(OpSetProperty))]_vars
    /\ [](\A n \in 0 .. 1 :
            /\ \A r \in {"i", "k"} :
                 /\ finished(instances(n, r, "p")) => output = <<Number(n)>>
                 /\ module = instances(n, r, "q")
                    => status # "idle" /\ output = <<>>
            /\ \A q \in {"p", "q"} :
                 module = instances(n, "j", q) => status # "idle" /\ output = <<>>)
    /\ [](finished(instance_set_twice) => output = <<Number(2)>>)

\* print(k.p) has written the 1 that i.p = 1 set, and j has no field.
C21_Witness ==
    /\ finished(instances(1, "k", "p"))
    /\ output = <<Number(1)>>
    /\ Len(vm.heap) = 2
    /\ DOMAIN vm.heap[2].fields = {}

\* C22: the loop is running only with a frame on the frame stack, and has
\* ended (idle) only with none.  An instruction changes the depth of the frame
\* stack by +1, and then it is a Call with a Closure as callee, or by -1, and
\* then it is a Return, or not at all: a Call of a Closure with as many
\* arguments as its arity adds a frame, a Call of a Class and a Closure
\* instruction add none, a Return takes one off.  The run ends by the Return
\* of the one frame left, the script's.
callee == vm.stack[Len(vm.stack) - read_byte(skip_byte(vm))]

C22_FrameStack ==
    /\ [](status = "running" => Len(vm.frames) > 0)
    /\ [](status = "idle" => Len(vm.frames) = 0)
    /\ [][status = "running" =>
            \/ Len(vm'.frames) = Len(vm.frames)
            \/ /\ Len(vm'.frames) = Len(vm.frames) + 1
               /\ fetch(OpCall)
               /\ callee.t = "Closure"
            \/ /\ Len(vm'.frames) = Len(vm.frames) - 1
               /\ fetch(OpReturn)]_vars
    /\ [][fetch(OpCall) /\ Len(vm.stack) > read_byte(skip_byte(vm)) =>
            Len(vm'.frames) =
                IF callee.t = "Closure"
                   /\ callee.closure.function.arity = read_byte(skip_byte(vm))
                THEN Len(vm.frames) + 1
                ELSE Len(vm.frames)]_vars
    /\ [][fetch(OpClosure) => Len(vm'.frames) = Len(vm.frames)]_vars
    /\ [][fetch(OpReturn) => Len(vm'.frames) = Len(vm.frames) - 1]_vars
    /\ [][status = "running" /\ status' = "idle" =>
            fetch(OpReturn) /\ Len(vm.frames) = 1]_vars

\* A Call of a Class has run in the script's frame: an Instance, and no frame.
C22_Witness ==
    /\ executed(OpCall, 2)
    /\ Len(vm.frames) = 1
    /\ stack_last(vm).t = "Instance"

\* C23: the chunk of every frame, and of every Function among its constants,
\* ends with Nil, Return; while the loop is running the ip is inside the code
\* of the frame's chunk; the Return that ends a function's chunk returns Nil.
\* So `def f() end print(f())` prints Nil.
ends_with_return(chunk) ==
    /\ Len(chunk.code) >= 2
    /\ chunk.code[Len(chunk.code) - 1] = OpNil
    /\ chunk.code[Len(chunk.code)] = OpReturn

C23_ImplicitReturn ==
    /\ [](\A i \in DOMAIN vm.frames :
            LET chunk == vm.frames[i].closure.function.chunk
            IN /\ ends_with_return(chunk)
               /\ \A k \in DOMAIN chunk.constants :
                    chunk.constants[k].t = "Function"
                    => ends_with_return(chunk.constants[k].fun.chunk))
    /\ [](status = "running" =>
            frame(vm).ip < Len(vm_current_chunk(vm).code))
    /\ [][fetch(OpReturn) /\ frame(vm).ip = Len(vm_current_chunk(vm).code) - 1
          => stack_last(vm) = Nil /\ stack_last(vm') = Nil]_vars
    /\ [](finished(<<FunctionExpr("f", <<>>, <<>>), Print_(Call(VarGet("f"), <<>>))>>)
          => output = <<Nil>>)

\* f, whose body is empty, has returned Nil to the script.
C23_Witness ==
    /\ module = <<FunctionExpr("f", <<>>, <<>>), Print_(Call(VarGet("f"), <<>>))>>
    /\ executed(OpCall, 2)
    /\ Len(vm.frames) = 1
    /\ stack_last(vm) = Nil

\* C24: a GetLocal reads the local the compiler resolved the name to, after
\* any statements: in a block, `var b = 3  print(b)` prints 3 also when an
\* assignment `a = 2` to an earlier local, or an if with a var declaration in
\* its arm, taken or not, comes before the declaration of b.
C24_SlotsMatch ==
    /\ finished(locals_only) => output = <<Number(3), Number(2), Number(1)>>
    /\ module = locals_only => status \in {"idle", "running"}
    /\ finished(local_after_assignment) => output = <<Number(3)>>
    /\ \A c \in {Literal(True), Literal(False)} :
         /\ finished(local_after_if(c)) => output = <<Number(3)>>
         /\ module = local_after_if(c) => status \in {"idle", "running"}

\* C25: the condition of an if, if/else or while is popped exactly once on
\* either path. JumpIfFalse leaves the stack as it is; on a true condition the
\* next instruction is the Pop directly after it, on a false condition the Pop
\* at its target, which no other path runs into: the instruction before that
\* Pop is the Jump of the true path (which skips it) or the Loop of the body;
\* and the Pop that follows removes the condition and nothing else.
condition_kept ==
    /\ status' = "running"
    /\ vm'.stack = vm.stack
    /\ read_byte(vm') = OpPop

C25_ConditionPopped ==
    /\ [][fetch(OpJumpIfFalse) /\ bool_from(stack_last(vm))
            => condition_kept /\ frame(vm').ip = frame(vm).ip + 3]_vars
    /\ [][fetch(OpJumpIfFalse) /\ ~bool_from(stack_last(vm))
            => /\ condition_kept
               /\ frame(vm').ip > frame(vm).ip + 3
               /\ vm_current_chunk(vm).code[frame(vm').ip - 2] \in {OpJump, OpLoop}]_vars
    /\ [][fetch(OpJump)
            => /\ vm_current_chunk(vm).code[frame(vm).ip + 4] = OpPop
               /\ frame(vm').ip > frame(vm).ip + 3]_vars
    /\ [][fetch(OpLoop)
            => /\ vm_current_chunk(vm).code[frame(vm).ip + 4] = OpPop
               /\ frame(vm').ip < frame(vm).ip]_vars
    /\ [][fetch(OpPop) /\ frame(vm).ip >= 3
            /\ vm_current_chunk(vm).code[frame(vm).ip - 2] \in {OpJumpIfFalse, OpJump, OpLoop}
            => vm'.stack = SubSeq(vm.stack, 1, Len(vm.stack) - 1)]_vars

\* A false condition has just been popped at the target of the JumpIfFalse.
C25_Witness ==
    /\ status = "running"
    /\ executed(OpPop, 1)
    /\ frame(vm).ip >= 4
    /\ vm_current_chunk(vm).code[frame(vm).ip - 3] = OpJump
    /\ \E i \in DOMAIN module : module[i].kind = "IfElse"

\* C26: Call n on a Class pushes no frame and replaces the callee and its n
\* arguments by one fresh Instance of the class with no fields: the stack is
\* n shorter than before the call and the Instance is on top, for every n.
C26_ClassCall ==
    [][fetch(OpCall) /\ Len(vm.stack) > read_byte(skip_byte(vm)) /\ callee.t = "Class"
         => /\ status' = "running"
            /\ vm'.frames = [vm.frames EXCEPT ![Len(vm.frames)].ip = @ + 2]
            /\ Len(vm'.heap) = Len(vm.heap) + 1
            /\ vm'.heap[Len(vm'.heap)] = Instance_new(callee.class)
            /\ Len(vm'.stack) = Len(vm.stack) - read_byte(skip_byte(vm))
            /\ stack_last(vm') = Instance(Len(vm.heap))]_vars

\* C27: StoreSubscript with [array, index, item] on top of the stack pops the
\* three and leaves the stored item on top (two values fewer); NewArray n
\* pops n values and pushes one array of them in the order they were pushed.
C27_ArrayStack ==
    /\ [][fetch(OpNewArray) /\ Len(vm.stack) >= read_byte(skip_byte(vm))
            => LET n == read_byte(skip_byte(vm)) IN
               /\ status' = "running"
               /\ Len(vm'.stack) = Len(vm.stack) - n + 1
               /\ stack_last(vm') = Array(SubSeq(vm.stack, Len(vm.stack) - n + 1, Len(vm.stack)))
               /\ SubSeq(vm'.stack, 1, Len(vm.stack) - n) = SubSeq(vm.stack, 1, Len(vm.stack) - n)]_vars
    /\ [][fetch(OpStoreSubscript) /\ status' = "running"
            => /\ Len(vm'.stack) = Len(vm.stack) - 2
               /\ stack_last(vm') = stack_last(vm)
               /\ SubSeq(vm'.stack, 1, Len(vm.stack) - 3) = SubSeq(vm.stack, 1, Len(vm.stack) - 3)]_vars

\* C28: in every CompilerInstance, after any sequence of begin_scope,
\* declarations and end_scope, the Local list starts with the reserved slot 0
\* (empty name, depth 0), the depths along the list never decrease, and no
\* step changes a Local that was in the list before it and still is after it
\* (mark_initialized sets the depth of the Local just added, and no other).
locals_kept(before, after) ==
    \A k \in 1 .. Len(before) : k <= Len(after) => after[k] = before[k]

C28_LocalList ==
    /\ [](comp.panic = "" => \A i \in DOMAIN comp.insts :
            LET locals == comp.insts[i].locals IN
            /\ Len(locals) >= 1
            /\ locals[1] = Local_new("", 0)
            /\ \A k \in 1 .. Len(locals) - 1 : locals[k].depth <= locals[k + 1].depth)
    /\ [][comp'.panic = "" =>
            /\ Len(comp'.insts) >= Len(comp.insts) =>
                 \A i \in DOMAIN comp.insts :
                     locals_kept(comp.insts[i].locals, comp'.insts[i].locals)
            /\ Len(comp'.insts) < Len(comp.insts) =>
                 \A i \in DOMAIN comp'.insts :
                     locals_kept(comp.insts[i].locals, comp'.insts[i].locals)]_vars

\* C29: an interpret call that completes without error leaves no frame and
\* the value stack one element longer than it was before the call, the
\* script's Nil result on top: on the VM the REPL reuses the stack has k
\* elements after k successful lines, and the script frame of line k + 1
\* starts at slot k.
C29_StackGrows ==
    /\ [](status = "idle" => vm.frames = <<>> /\ Len(vm.stack) = lines)
    /\ [][status = "idle" /\ status' = "running"
            => /\ Len(vm'.frames) = 1
               /\ vm'.frames[1].stack_start = Len(vm.stack)
               /\ vm'.frames[1].stack_start = lines]_vars
    /\ [][status = "running" /\ status' = "idle"
            => /\ Len(vm'.stack) = vm.frames[1].stack_start + 1
               /\ stack_last(vm') = Nil]_vars

\* C30: parsing a call `f(e1, ..., en)` or an array literal `[e1, ..., en]`
\* with n >= 2 comma-separated expressions succeeds and yields the CallExpr
\* or ArrayExpr of e1 .. en in source order: once the parser is past the
\* first statement of the source, it has not failed on it and the first expr
\* it parsed is that statement.
first_statement_parsed ==
    \/ parsed.exprs # <<>>
    \/ parsed.result # ""

C30_CommaSeparated ==
    /\ module # <<>>
    /\ module[1].kind = "Call" => Len(module[1].args) >= 2
    /\ module[1].kind = "Array" => Len(module[1].exprs) >= 2
    /\ first_statement_parsed
    => /\ parsed.exprs # <<>>
       /\ parsed.exprs[1] = module[1]

====
